---- MODULE Spec2Model ----
(***************************************************************************)
(* Server5K: the competition lifecycle (Competencia.start/stop and         *)
(* CompetenciaService.iniciar_competencia/detener_competencia) and the     *)
(* time-registration service (RegistroService, RegistrarTiemposView), the  *)
(* components of a stored time (RegistroTiempo.save), the results page     *)
(* (competencia_detail_view) and the judges' live connection               *)
(* (JuezConsumer.connect).                                                 *)
(*                                                                         *)
(* The database is modelled at statement granularity: every ORM statement  *)
(* reads or writes the committed rows in one step; a transaction keeps its *)
(* uncommitted inserts in `pending` and its row locks in `lockOwner` until *)
(* it ends (READ COMMITTED, the isolation level of the PostgreSQL backend  *)
(* the settings select).                                                   *)
(***************************************************************************)
EXTENDS Integers, Sequences, FiniteSets, TLC

\* ---------------------------------------------------------------- bounds
NumComps == 2
NumAdmins == 2
MaxClock == 3
NumJueces == 2
NumEquipos == 2
NumProcs == 2
MaxUuid == 1
NumConns == 2
MaxCola == 2

\* RegistroService.MAX_REGISTROS_POR_EQUIPO and RegistrarTiemposView.MAX_REGISTROS
MAX_REGISTROS_POR_EQUIPO == 15
MAX_REGISTROS == 15

Comps == 1..NumComps
Admins == 1..NumAdmins
\* ids a caller may name: 0 is an id with no row (Competencia.DoesNotExist)
CompIds == 0..NumComps
Jueces == 1..NumJueces
Equipos == 1..NumEquipos
\* ids a caller may name: 0 is an id with no row (Equipo.DoesNotExist)
EquipoIds == 0..NumEquipos
Procs == 1..NumProcs
Conns == 1..NumConns
\* record ids: 0 is None (no id supplied), 1..ClientIdMax are ids clients
\* supply, the ids above ClientIdMax are the values of uuid.uuid4()
ClientIdMax == MAX_REGISTROS_POR_EQUIPO + 3

VARIABLES
    comp,       \* the persisted Competencia rows
    now,        \* the clock timezone.now() reads (0: no DateTime, None)
    lpc,        \* each lifecycle request's position
    lop,        \* each lifecycle request: entry point, operation, target id
    inst,       \* each lifecycle request's in-memory Competencia instance
    prev,       \* instance._previous_is_running, set by the pre_save hook
    iniciada,   \* history: for each competition, whether the latest start or
                \* stop of it that reported success was a start
    historia,   \* history: for each competition, whether a start has ever
                \* written its row (empezada) and whether a stop has (parada)
    llast,      \* the result the lifecycle step just taken returned, if it
                \* returned one: the request, its result, the events it
                \* published, whether it wrote its row, its instance
    equipo,     \* the persisted Equipo rows: assigned judge (0 is null), competition
    registros,  \* the committed RegistroTiempo rows
    pending,    \* each registration transaction's uncommitted inserts
    lockOwner,  \* the transaction holding each Equipo row lock (0: none)
    nextUuid,   \* how many uuid4 values have been drawn
    rpc,        \* each registration request's position
    rop,        \* each registration request: entry point, judge, team id, payload
    acrear,     \* registros_a_crear of the batch in progress
    rres,       \* the result the request in progress is building
    rsent,      \* the events the request in progress has published
    last,       \* the response the registration step just taken returned, if
                \* it returned one: the request, its result, the events it
                \* published and the rows it committed
    entrada,    \* the time and components a client supplied for one record
    fila,       \* the RegistroTiempo row written from them
    tpc,        \* how that row was written (none: not yet)
    tiempos,    \* results page: the times of each team of the competition shown
    listado,    \* results page: the list of teams rendered
    vpc,        \* results page: whether the list has been computed
    juezActivo, \* Juez.is_active of each judge
    ws,         \* each judge live connection: its position in connect, its
                \* handshake, the attributes connect has set, its close code
    grupos,     \* the channel layer: which channel is in which group
    wlast       \* what the consumer step just taken did, if it handled a
                \* message: the connection, the inbound message's tipo or the
                \* group event, and the message sent to the client

lcore == <<comp, now, lpc, lop, inst, prev, iniciada, historia>>
rcore == <<equipo, registros, pending, lockOwner, nextUuid, rpc, rop, acrear, rres, rsent>>

tcore == <<entrada, fila, tpc>>

vcore == <<tiempos, listado, vpc>>

wcore == <<juezActivo, ws, grupos>>

vars == <<lcore, llast, rcore, last, tcore, vcore, wcore, wlast>>

\* ------------------------------------------------------------ lifecycle
NoRow == [is_active |-> FALSE, is_running |-> FALSE, started_at |-> 0, finished_at |-> 0]
\* a competition no start or stop has written
NoHistoria == [empezada |-> FALSE, parada |-> FALSE]
NoOp == [via |-> "none", op |-> "none", id |-> 0]
NoRes == [success |-> FALSE, message |-> "none", otra |-> 0]
NoLLast == [admin |-> 0, op |-> NoOp, res |-> NoRes, sent |-> <<>>, wrote |-> FALSE,
            inst |-> NoRow]

NoTime == -1
NoReg == [record_id |-> 0, team |-> 0, time |-> NoTime]
NoRegOp == [kind |-> "none", juez |-> 0, equipo_id |-> 0, record_id |-> 0,
            time |-> NoTime, batch |-> <<>>]
NoRegRes == [exito |-> FALSE, error |-> "none", status |-> 0, duplicado |-> FALSE,
             registro |-> NoReg, total_enviados |-> 0, total_guardados |-> 0,
             total_fallidos |-> 0, guardados |-> <<>>, fallidos |-> <<>>]
NoLast == [proc |-> 0, op |-> NoRegOp, res |-> NoRegRes, sent |-> <<>>, stored |-> {}]

\* no competition status: obtener_estado_competencia's None
NoEstado == [id |-> 0, en_curso |-> FALSE]
\* no event, no message to the client
NoEvento == [tipo |-> "none"]
NoMensaje == [tipo |-> "none", competencia |-> 0, en_curso |-> FALSE,
              usar_http |-> FALSE, data |-> NoEvento]
\* no message has just been handled
NoWLast == [conn |-> 0, recibido |-> "none", evento |-> NoEvento, enviado |-> NoMensaje]

\* a lifecycle step leaves the registration state alone, and conversely
RegistroUnchanged == last' = NoLast /\ wlast' = NoWLast /\ UNCHANGED <<rcore, tcore, vcore, wcore>>
LifecycleUnchanged == llast' = NoLLast /\ wlast' = NoWLast /\ UNCHANGED <<lcore, tcore, vcore, wcore>>

\* Competencia.objects.filter(is_running=True).exclude(id=c).first():
\* an unordered queryset's first() orders by primary key; 0 is None
OtraEnCursoNone(c) == 0
OtraEnCurso(c) ==
    LET others == {o \in Comps : o # c /\ comp[o].is_running}
    IN  IF others = {} THEN 0 ELSE CHOOSE o \in others : \A x \in others : o <= x

\* the message CompetenciaService._notificar_jueces_competencia sends to the
\* group competencia_<c>; a competition's name stands for its id
Evento(tipo, c, en_curso, started, finished) ==
    [tipo |-> tipo, group |-> c, competencia_id |-> c, competencia_nombre |-> c,
     en_curso |-> en_curso, started_at |-> started, finished_at |-> finished]

\* the message the post_save hook sends: no timestamps in its data
EventoSignal(c, row) ==
    Evento(IF row.is_running THEN "competencia_iniciada" ELSE "competencia_detenida",
           c, row.is_running, 0, 0)

\* channel_layer.group_send of the events evs: each goes to the queue of
\* every channel that is in its group at that moment and has a consumer
EnCola(evs) ==
    [c \in Conns |->
        [ws[c] EXCEPT !.cola =
            IF ws[c].pc = "gone" THEN @
            ELSE @ \o SelectSeq(evs, LAMBDA ev :
                        [group |-> <<"competencia", ev.group>>, channel |-> c] \in grupos)]]

\* the events evs are published; a channel holds MaxCola messages at most
Publicar(evs) ==
    /\ \A c \in Conns : Len(EnCola(evs)[c].cola) <= MaxCola
    /\ ws' = EnCola(evs)
    /\ wlast' = NoWLast
    /\ UNCHANGED <<juezActivo, grupos>>

Result(ok, msg, otra) == [success |-> ok, message |-> msg, otra |-> otra]

\* the request returns and its locals are dropped
LReturn(a, op, res, evs, w, row) ==
    /\ lpc' = [lpc EXCEPT ![a] = "idle"]
    /\ lop' = [lop EXCEPT ![a] = NoOp]
    /\ inst' = [inst EXCEPT ![a] = NoRow]
    /\ prev' = [prev EXCEPT ![a] = FALSE]
    /\ iniciada' = IF res.success
                   THEN [iniciada EXCEPT ![op.id] = (op.op = "start")]
                   ELSE iniciada
    /\ historia' = IF w
                   THEN [historia EXCEPT ![op.id] =
                           IF op.op = "start" THEN [@ EXCEPT !.empezada = TRUE]
                           ELSE [@ EXCEPT !.parada = TRUE]]
                   ELSE historia
    /\ llast' = [admin |-> a, op |-> op, res |-> res, sent |-> evs, wrote |-> w,
                 inst |-> row]

\* a request that returns before it wrote or published anything
Rejected(a, op, res) == LReturn(a, op, res, <<>>, FALSE, NoRow)

\* the request goes on to its next statement with instance `row`
Goes(a, op, row, pc) ==
    /\ lpc' = [lpc EXCEPT ![a] = pc]
    /\ lop' = [lop EXCEPT ![a] = op]
    /\ inst' = [inst EXCEPT ![a] = row]
    /\ llast' = NoLLast
    /\ UNCHANGED <<iniciada, historia>>

\* `if self.is_running` / `if competencia.is_running` on the loaded instance
AlreadyRunningNever(row) == FALSE
AlreadyRunningOrFinished(row) == row.is_running \/ row.finished_at # 0
AlreadyRunning(row) == row.is_running

\* `if not competencia.is_active`, a guard of the service only
NotActive(via, row) == via = "service" /\ ~row.is_active

\* Competencia.objects.get(id) and the guards on the loaded instance that
\* precede the first query of start() / iniciar_competencia
StartLoad(a, via, c) ==
    /\ lpc[a] = "idle"
    /\ LET op == [via |-> via, op |-> "start", id |-> c]
       IN  IF c \notin Comps
           THEN Rejected(a, op, Result(FALSE, "not_found", 0))
           ELSE IF AlreadyRunning(comp[c])
           THEN Rejected(a, op, Result(FALSE, "already_running", 0))
           ELSE IF NotActive(via, comp[c])
           THEN Rejected(a, op, Result(FALSE, "not_active", 0))
           ELSE Goes(a, op, comp[c], "check") /\ UNCHANGED prev
    /\ UNCHANGED <<comp, now>>
    /\ RegistroUnchanged

\* the query for another running competition; when there is none the instance
\* is marked running and stamped with timezone.now()
StartCheck(a) ==
    /\ lpc[a] = "check"
    /\ LET otra == OtraEnCurso(lop[a].id)
       IN  IF otra # 0
           THEN /\ Rejected(a, lop[a], Result(FALSE, "another_running", otra))
                /\ UNCHANGED now
           ELSE /\ now < MaxClock
                /\ now' = now + 1
                /\ Goes(a, lop[a],
                        [inst[a] EXCEPT !.is_running = TRUE, !.started_at = now + 1],
                        "presave")
                /\ UNCHANGED prev
    /\ UNCHANGED comp
    /\ RegistroUnchanged

\* Competencia.objects.get(id) and the guard of stop() / detener_competencia;
\* a running instance is marked stopped and stamped with timezone.now()
StopLoad(a, via, c) ==
    /\ lpc[a] = "idle"
    /\ LET op == [via |-> via, op |-> "stop", id |-> c]
       IN  IF c \notin Comps
           THEN Rejected(a, op, Result(FALSE, "not_found", 0)) /\ UNCHANGED now
           ELSE IF ~comp[c].is_running
           THEN Rejected(a, op, Result(FALSE, "not_running", 0)) /\ UNCHANGED now
           ELSE /\ now < MaxClock
                /\ now' = now + 1
                /\ Goes(a, op,
                        [comp[c] EXCEPT !.is_running = FALSE, !.finished_at = now + 1],
                        "presave")
                /\ UNCHANGED prev
    /\ UNCHANGED comp
    /\ RegistroUnchanged

\* signals.competencia_pre_save: the first statement of save() reads the
\* stored is_running of the row
PreSave(a) ==
    /\ lpc[a] = "presave"
    /\ prev' = [prev EXCEPT ![a] = comp[lop[a].id].is_running]
    /\ lpc' = [lpc EXCEPT ![a] = "save"]
    /\ llast' = NoLLast
    /\ UNCHANGED <<comp, now, lop, inst, iniciada, historia>>
    /\ RegistroUnchanged

\* signals.competencia_estado_cambiado (post_save): publishes when is_running
\* changed; sigOk: group_send returned, a raise is logged and swallowed
SignalEvents(a, sigOk) ==
    IF prev[a] # inst[a].is_running /\ sigOk
    THEN <<EventoSignal(lop[a].id, inst[a])>>
    ELSE <<>>

\* the explicit _notificar_jueces_competencia call of each entry point
NotifyEventOf(via, op, c, row) ==
    IF op = "start"
    THEN Evento("competencia_iniciada", c, TRUE, row.started_at, 0)
    ELSE IF via = "service"
    THEN Evento("competencia_detenida", c, FALSE, row.started_at, row.finished_at)
    ELSE Evento("competencia_detenida", c, FALSE, 0, row.finished_at)

NotifyEvent(a) == NotifyEventOf(lop[a].via, lop[a].op, lop[a].id, inst[a])

\* what the caller gets when the explicit notification raised: the service
\* catches every Exception, the model method lets it propagate
NotifyFailed(a) ==
    IF lop[a].via = "service" THEN Result(FALSE, "error", 0) ELSE Result(FALSE, "raised", 0)

Succeeded(a) ==
    Result(TRUE, IF lop[a].op = "start" THEN "started" ELSE "stopped", 0)

\* save(): the UPDATE of the whole row from the instance and the post_save
\* hook, then the explicit notification (notOk: group_send returned) and the
\* return
SaveNotify(a, sigOk, notOk) ==
    /\ lpc[a] = "save"
    /\ comp' = [comp EXCEPT ![lop[a].id] = inst[a]]
    /\ LET evs == SignalEvents(a, sigOk) \o (IF notOk THEN <<NotifyEvent(a)>> ELSE <<>>)
       IN  /\ LReturn(a, lop[a],
                      IF notOk THEN Succeeded(a) ELSE NotifyFailed(a),
                      evs, TRUE, inst[a])
           /\ Publicar(evs)
    /\ UNCHANGED now
    /\ last' = NoLast
    /\ UNCHANGED <<rcore, tcore, vcore>>

LifecycleStep(a) ==
    \/ \E via \in {"model", "service"}, c \in CompIds : StartLoad(a, via, c)
    \/ \E via \in {"model", "service"}, c \in CompIds : StopLoad(a, via, c)
    \/ StartCheck(a)
    \/ PreSave(a)
    \/ \E sigOk \in BOOLEAN, notOk \in BOOLEAN : SaveNotify(a, sigOk, notOk)

\* no competition has been started; each may be active or not
InitLifecycle ==
    /\ comp \in [Comps -> {[NoRow EXCEPT !.is_active = b] : b \in BOOLEAN}]
    /\ now = 0
    /\ lpc = [a \in Admins |-> "idle"]
    /\ lop = [a \in Admins |-> NoOp]
    /\ inst = [a \in Admins |-> NoRow]
    /\ prev = [a \in Admins |-> FALSE]
    /\ iniciada = [c \in Comps |-> FALSE]
    /\ historia = [c \in Comps |-> NoHistoria]
    /\ llast = NoLLast

\* --------------------------------------------------------- registration
\* juez.teams.all(): the Equipo rows whose judge is j
JudgeTeams(j) == {e \in Equipos : equipo[e].judge = j}

\* equipos.first().competition: Equipo.Meta.ordering is ['number']; the teams
\* are numbered in the order of their ids
CompetenciaJuez(j) ==
    LET ts == JudgeTeams(j)
    IN  equipo[CHOOSE e \in ts : \A x \in ts : e <= x].competition

\* `not competencia_juez or not competencia_juez.is_running`
NoEnCurso(j) == ~comp[CompetenciaJuez(j)].is_running

\* Equipo.objects.select_for_update(): the row lock is free or already ours
LockFreeAlways(p, e) == TRUE
LockFree(p, e) == lockOwner[e] \in {0, p}

\* `equipo.judge_id != juez.id`
NotOwnedNever(e, j) == FALSE
NotOwned(e, j) == equipo[e].judge # j

\* RegistroTiempo.objects.filter(team=equipo).count(), as transaction p reads it
CountTeamAll(p, e) == Cardinality(registros \cup pending[p])
CountTeam(p, e) == Cardinality({r \in registros \cup pending[p] : r.team = e})

\* RegistroTiempo.objects.filter(record_id=rid).first(): record_id is unique
Existing(rid) ==
    IF \E r \in registros : r.record_id = rid
    THEN CHOOSE r \in registros : r.record_id = rid
    ELSE NoReg

StoredIds == {r.record_id : r \in registros}
PendingIdsOfOthers(p) == UNION {{r.record_id : r \in pending[q]} : q \in Procs \ {p}}

\* every way a registration ends its transaction: COMMIT makes the inserts
\* visible and releases the row locks
Commit(p) ==
    /\ registros' = registros \cup pending[p]
    /\ pending' = [pending EXCEPT ![p] = {}]
    /\ lockOwner' = [e \in Equipos |-> IF lockOwner[e] = p THEN 0 ELSE lockOwner[e]]

\* the request returns: its transaction ends and its locals are dropped
Return(p, op, res, evs) ==
    /\ rpc' = [rpc EXCEPT ![p] = "idle"]
    /\ rop' = [rop EXCEPT ![p] = NoRegOp]
    /\ rres' = [rres EXCEPT ![p] = NoRegRes]
    /\ acrear' = [acrear EXCEPT ![p] = <<>>]
    /\ rsent' = [rsent EXCEPT ![p] = <<>>]
    /\ last' = [proc |-> p, op |-> op, res |-> res, sent |-> evs, stored |-> pending[p]]
    /\ Commit(p)

RFinish(p, res) == Return(p, rop[p], res, rsent[p])

\* the result of a request that failed as a whole: registrar_tiempo's
\* {'exito': False, 'error': ...}, the batch's every index failed, the view's
\* error Response with its status
AllFailedFirst(n, err) == [i \in 1..(IF n > 0 THEN 1 ELSE 0) |-> [indice |-> i - 1, error |-> err]]
AllFailed(n, err) == [i \in 1..n |-> [indice |-> i - 1, error |-> err]]

\* 'total_enviados' and 'total_fallidos' are keys of register_batch's result
\* only: the view's Response does not carry them
ConTotales(op, res) ==
    IF op.kind = "batch"
    THEN [res EXCEPT !.total_enviados = Len(op.batch), !.total_fallidos = Len(res.fallidos)]
    ELSE res

Failure(op, err, status) ==
    IF op.kind = "batch"
    THEN [NoRegRes EXCEPT !.error = err,
                          !.total_enviados = Len(op.batch),
                          !.total_fallidos = Len(op.batch),
                          !.fallidos = AllFailed(Len(op.batch), err)]
    ELSE [NoRegRes EXCEPT !.error = err,
                          !.status = IF op.kind = "http" THEN status ELSE 0,
                          !.fallidos = IF op.kind = "single" THEN <<>>
                                       ELSE AllFailed(Len(op.batch), err)]

\* the entry of each operation up to its first lock: the view's validation of
\* the body, then (in the transaction) the judge's teams and the is_running
\* of the competition of the judge's first team
Begin(p, op) ==
    /\ rpc[p] = "idle"
    /\ UNCHANGED <<equipo, nextUuid>>
    /\ LifecycleUnchanged
    /\ IF op.kind = "http" /\ op.batch = <<>>
       THEN Return(p, op, Failure(op, "no_registros", 400), <<>>)
       ELSE IF op.kind = "http" /\ Len(op.batch) # MAX_REGISTROS
       THEN Return(p, op, Failure(op, "se_requieren_15", 400), <<>>)
       ELSE IF JudgeTeams(op.juez) = {}
       THEN Return(p, op, Failure(op, "no_teams", 403), <<>>)
       ELSE IF NoEnCurso(op.juez)
       THEN Return(p, op, Failure(op, "not_running", 400), <<>>)
       ELSE /\ rpc' = [rpc EXCEPT ![p] = "lock"]
            /\ rop' = [rop EXCEPT ![p] = op]
            /\ UNCHANGED <<registros, pending, lockOwner, rres, acrear, rsent>>
            /\ last' = NoLast

\* Equipo.objects.select_for_update().get(id=equipo_id) and the ownership test
Lock(p) ==
    /\ rpc[p] = "lock"
    /\ LET op == rop[p]
           e == op.equipo_id
       IN  IF e \notin Equipos
           THEN RFinish(p, Failure(op, "team_not_found", 404))
           ELSE /\ LockFree(p, e)
                /\ IF NotOwned(e, op.juez)
                   THEN RFinish(p, Failure(op, "not_owned", 403))
                   ELSE /\ lockOwner' = [lockOwner EXCEPT ![e] = p]
                        /\ rpc' = [rpc EXCEPT ![p] =
                                     CASE op.kind = "single" -> "check"
                                       [] op.kind = "batch" -> "count"
                                       [] OTHER -> "service"]
                        /\ UNCHANGED <<registros, pending, rop, rres, acrear, rsent>>
                        /\ last' = NoLast
    /\ UNCHANGED <<equipo, nextUuid>>
    /\ LifecycleUnchanged

\* the view has delegated to registrar_batch_sync: _registrar_batch_impl reads
\* the judge's teams and the competition again, and takes the row lock the
\* transaction already holds
Service(p) ==
    /\ rpc[p] = "service"
    /\ LET op == rop[p]
       IN  IF NoEnCurso(op.juez)
           THEN RFinish(p, Failure(op, "not_running", 400))
           ELSE /\ rpc' = [rpc EXCEPT ![p] = "count"]
                /\ UNCHANGED <<registros, pending, lockOwner, rop, rres, acrear, rsent>>
                /\ last' = NoLast
    /\ UNCHANGED <<equipo, nextUuid>>
    /\ LifecycleUnchanged

\* registrar_tiempo with its two tests in the other order: the count against
\* the limit, then the idempotency lookup
CheckLimiteAntes(p) ==
    /\ rpc[p] = "check"
    /\ LET op == rop[p]
           found == IF op.record_id # 0 THEN Existing(op.record_id) ELSE NoReg
       IN  IF CountTeam(p, op.equipo_id) >= MAX_REGISTROS_POR_EQUIPO
           THEN RFinish(p, Failure(op, "limite", 0))
           ELSE IF found # NoReg
           THEN RFinish(p, [NoRegRes EXCEPT !.exito = TRUE, !.registro = found,
                                            !.duplicado = TRUE])
           ELSE /\ rpc' = [rpc EXCEPT ![p] = "insert"]
                /\ UNCHANGED <<registros, pending, lockOwner, rop, rres, acrear, rsent>>
                /\ last' = NoLast
    /\ UNCHANGED <<equipo, nextUuid>>
    /\ LifecycleUnchanged

\* registrar_tiempo: the idempotency lookup, then the count against the limit
Check(p) ==
    /\ rpc[p] = "check"
    /\ LET op == rop[p]
           found == IF op.record_id # 0 THEN Existing(op.record_id) ELSE NoReg
       IN  IF found # NoReg
           THEN RFinish(p, [NoRegRes EXCEPT !.exito = TRUE, !.registro = found,
                                            !.duplicado = TRUE])
           ELSE IF CountTeam(p, op.equipo_id) >= MAX_REGISTROS_POR_EQUIPO
           THEN RFinish(p, Failure(op, "limite", 0))
           ELSE /\ rpc' = [rpc EXCEPT ![p] = "insert"]
                /\ UNCHANGED <<registros, pending, lockOwner, rop, rres, acrear, rsent>>
                /\ last' = NoLast
    /\ UNCHANGED <<equipo, nextUuid>>
    /\ LifecycleUnchanged

\* bulk_create(objs, ignore_conflicts=True): INSERT ... ON CONFLICT DO NOTHING.
\* A row whose record_id is stored is skipped, one whose record_id another
\* transaction has inserted and not yet committed makes the statement wait.
\* Django returns the list it was given, whatever was skipped.
InsertWaits(p, ids) == ids \cap PendingIdsOfOthers(p) # {}
Inserted(p, objs) ==
    {[record_id |-> objs[i].record_id, team |-> rop[p].equipo_id, time |-> objs[i].time] :
        i \in {k \in 1..Len(objs) :
                 /\ objs[k].record_id \notin StoredIds
                 /\ \A m \in 1..(k - 1) : objs[m].record_id # objs[k].record_id}}

\* registrar_tiempo: build the row (record_id or uuid.uuid4()), insert it,
\* and report it as created because bulk_create returned a non-empty list
Insert(p) ==
    /\ rpc[p] = "insert"
    /\ LET op == rop[p]
           fresh == op.record_id = 0
           rid == IF fresh THEN ClientIdMax + nextUuid + 1 ELSE op.record_id
           obj == [indice |-> 0, record_id |-> rid, time |-> op.time]
       IN  /\ fresh => nextUuid < MaxUuid
           /\ ~InsertWaits(p, {rid})
           /\ nextUuid' = IF fresh THEN nextUuid + 1 ELSE nextUuid
           /\ pending' = [pending EXCEPT ![p] = @ \cup Inserted(p, <<obj>>)]
           /\ rres' = [rres EXCEPT ![p] =
                         [NoRegRes EXCEPT !.exito = TRUE, !.duplicado = FALSE,
                                          !.registro = [record_id |-> rid,
                                                        team |-> op.equipo_id,
                                                        time |-> op.time]]]
           /\ rpc' = [rpc EXCEPT ![p] = "commit"]
    /\ last' = NoLast
    /\ UNCHANGED <<equipo, registros, lockOwner, rop, acrear, rsent>>
    /\ LifecycleUnchanged

\* `if num_registros_actuales > 0`: the team has already submitted
YaTieneNever(n) == FALSE
YaTiene(n) == n > 0

\* the loop over the batch: a record without 'tiempo' fails, a record past
\* the limit fails, the others are queued with their id or a uuid4
\* `time = reg.get('tiempo'); if time is None`
FaltaTiempo(reg) == reg.tiempo = NoTime

RECURSIVE Filtrar(_, _, _, _)
Filtrar(batch, i, n, acc) ==
    IF i > Len(batch) THEN acc
    ELSE LET reg == batch[i]
         IN  IF FaltaTiempo(reg)
             THEN Filtrar(batch, i + 1, n,
                          [acc EXCEPT !.fallidos =
                             Append(@, [indice |-> i - 1, error |-> "falta_tiempo"])])
             ELSE IF n + Len(acc.crear) >= MAX_REGISTROS_POR_EQUIPO
             THEN Filtrar(batch, i + 1, n,
                          [acc EXCEPT !.fallidos =
                             Append(@, [indice |-> i - 1, error |-> "limite"])])
             ELSE LET fresh == reg.id_registro = 0
                      rid == IF fresh THEN ClientIdMax + acc.uuid + 1 ELSE reg.id_registro
                  IN  Filtrar(batch, i + 1, n,
                              [acc EXCEPT !.crear = Append(@, [indice |-> i - 1,
                                                               record_id |-> rid,
                                                               time |-> reg.tiempo]),
                                          !.uuid = IF fresh THEN @ + 1 ELSE @])

\* _registrar_batch_impl: count the team's rows, refuse a team that has any,
\* else filter the batch; nothing to create ends the call
Count(p) ==
    /\ rpc[p] = "count"
    /\ LET op == rop[p]
           n == CountTeam(p, op.equipo_id)
           f == Filtrar(op.batch, 1, n, [crear |-> <<>>, fallidos |-> <<>>, uuid |-> nextUuid])
       IN  IF YaTiene(n)
           THEN /\ RFinish(p, Failure(op, "ya_tiene", 400))
                /\ UNCHANGED nextUuid
           ELSE /\ f.uuid <= MaxUuid
                /\ nextUuid' = f.uuid
                /\ IF f.crear = <<>>
                   THEN /\ RFinish(p, ConTotales(op, [NoRegRes EXCEPT
                                         !.fallidos = f.fallidos,
                                         !.error = IF op.kind = "http" THEN "fallidos" ELSE "none",
                                         !.status = IF op.kind = "http" THEN 400 ELSE 0]))
                   ELSE /\ acrear' = [acrear EXCEPT ![p] = f.crear]
                        /\ rres' = [rres EXCEPT ![p] = [NoRegRes EXCEPT !.fallidos = f.fallidos]]
                        /\ rpc' = [rpc EXCEPT ![p] = "binsert"]
                        /\ UNCHANGED <<registros, pending, lockOwner, rop, rsent>>
                        /\ last' = NoLast
    /\ UNCHANGED equipo
    /\ LifecycleUnchanged

\* the message RegistrarTiemposView._notificar_actualizacion sends to the
\* group of the team's competition
EventoRegistros(e, guardados) ==
    [tipo |-> "registros_actualizados", group |-> equipo[e].competition,
     equipo_id |-> e, total_registros |-> Len(guardados)]

\* _registrar_batch_impl: the bulk insert and the result mapping: every queued
\* record is reported saved with duplicado False, total_guardados is
\* len(creados). The view then, still inside its transaction, answers 400 when
\* nothing was saved and something failed, else publishes (a raise of
\* group_send is swallowed) and answers 201.
BatchInsert(p, pubOk) ==
    /\ rpc[p] = "binsert"
    /\ LET op == rop[p]
           objs == acrear[p]
           guardados == [i \in 1..Len(objs) |->
                           [indice |-> objs[i].indice, id_registro |-> objs[i].record_id,
                            tiempo |-> objs[i].time, duplicado |-> FALSE]]
       IN  /\ ~InsertWaits(p, {objs[i].record_id : i \in 1..Len(objs)})
           /\ pending' = [pending EXCEPT ![p] = @ \cup Inserted(p, objs)]
           /\ rres' = [rres EXCEPT ![p] =
                         ConTotales(op, [@ EXCEPT !.exito = TRUE,
                                               !.status = IF op.kind = "http" THEN 201 ELSE 0,
                                               !.total_guardados = Len(objs),
                                               !.guardados = guardados])]
           /\ LET evs == IF op.kind = "http" /\ pubOk
                         THEN <<EventoRegistros(op.equipo_id, guardados)>>
                         ELSE <<>>
              IN  /\ rsent' = [rsent EXCEPT ![p] = evs]
                  /\ Publicar(evs)
           /\ rpc' = [rpc EXCEPT ![p] = "commit"]
    /\ last' = NoLast
    /\ UNCHANGED <<equipo, registros, lockOwner, nextUuid, rop, acrear>>
    /\ llast' = NoLLast
    /\ UNCHANGED <<lcore, tcore, vcore>>

\* leaving `with transaction.atomic()` after the return value is built
CommitStep(p) ==
    /\ rpc[p] = "commit"
    /\ RFinish(p, rres[p])
    /\ UNCHANGED <<equipo, nextUuid>>
    /\ LifecycleUnchanged

\* the payloads the requests are drawn from
BatchOf(n) == [i \in 1..n |-> [id_registro |-> i, tiempo |-> i]]
\* a batch of 17 whose second record has no 'tiempo'
BatchFalta ==
    [i \in 1..(MAX_REGISTROS_POR_EQUIPO + 2) |->
        [id_registro |-> i, tiempo |-> IF i = 2 THEN NoTime ELSE i]]
Batches ==
    {BatchOf(MAX_REGISTROS_POR_EQUIPO), BatchOf(MAX_REGISTROS_POR_EQUIPO - 1)}
SingleIds == {0, ClientIdMax}

RegOps ==
    {[kind |-> "single", juez |-> j, equipo_id |-> e, record_id |-> rid,
      time |-> 1, batch |-> <<>>] : j \in Jueces, e \in EquipoIds, rid \in SingleIds}
    \cup
    {[kind |-> k, juez |-> j, equipo_id |-> e, record_id |-> 0,
      time |-> NoTime, batch |-> b] :
        k \in {"batch", "http"}, j \in Jueces, e \in EquipoIds, b \in Batches}

\* one step of request p, its operation drawn from ops
RegistroStepOver(p, ops) ==
    \/ \E op \in ops : Begin(p, op)
    \/ Lock(p)
    \/ Service(p)
    \/ Check(p)
    \/ Insert(p)
    \/ Count(p)
    \/ \E pubOk \in BOOLEAN : BatchInsert(p, pubOk)
    \/ CommitStep(p)

RegistroStep(p) == RegistroStepOver(p, RegOps)

\* ------------------------------------------------------- specifications
InitRegistro ==
    /\ registros = {}
    /\ pending = [p \in Procs |-> {}]
    /\ lockOwner = [e \in Equipos |-> 0]
    /\ nextUuid = 0
    /\ rpc = [p \in Procs |-> "idle"]
    /\ rop = [p \in Procs |-> NoRegOp]
    /\ acrear = [p \in Procs |-> <<>>]
    /\ rres = [p \in Procs |-> NoRegRes]
    /\ rsent = [p \in Procs |-> <<>>]
    /\ last = NoLast

\* no single row is being followed
NoFila == [time |-> 0, hours |-> 0, minutes |-> 0, seconds |-> 0, milliseconds |-> 0]
SinFila == entrada = NoFila /\ fila = NoFila /\ tpc = "none"

\* no results page is being rendered
SinListado == tiempos = <<>> /\ listado = <<>> /\ vpc = "none"

\* no judge connection is being followed: every judge is active, no socket
\* has been opened
NoToken == [presente |-> FALSE, valido |-> FALSE, juez_id |-> 0]
\* a consumer before its connect: kind is the consumer class of the route;
\* estado is the snapshot connect has read; cola holds the group messages
\* waiting for the consumer; primero is the first message sent to the
\* client, visto the latest competition status among the messages sent;
\* fallados are the groups whose group_discard raised
NoConn == [pc |-> "none", kind |-> "none", token |-> NoToken, url |-> 0, juez |-> 0,
           group_name |-> FALSE, competencia_group |-> 0, code |-> 0,
           causa |-> "none", accepted |-> FALSE, joined |-> FALSE,
           estado |-> NoEstado, cola |-> <<>>, primero |-> NoMensaje,
           visto |-> NoEstado, fallados |-> {}]
SinConexiones ==
    /\ juezActivo = [j \in Jueces |-> TRUE]
    /\ ws = [c \in Conns |-> NoConn]
    /\ grupos = {}
    /\ wlast = NoWLast

\* team t is assigned to judge t and belongs to competition 1
EquiposPropios ==
    [e \in Equipos |-> [judge |-> IF e \in Jueces THEN e ELSE 0, competition |-> 1]]

\* the lifecycle alone: any number of concurrent start/stop requests
Init ==
    /\ InitLifecycle
    /\ InitRegistro
    /\ SinFila
    /\ SinListado
    /\ SinConexiones
    /\ equipo = EquiposPropios

Next == \E a \in Admins : LifecycleStep(a)

Spec == Init /\ [][Next]_vars

\* the state a successful start(1) leaves: competition 1 runs, no other does
InitRunning ==
    /\ comp = [c \in Comps |->
                 IF c = 1
                 THEN [is_active |-> TRUE, is_running |-> TRUE, started_at |-> 1, finished_at |-> 0]
                 ELSE [NoRow EXCEPT !.is_active = TRUE]]
    /\ now = 1
    /\ lpc = [a \in Admins |-> "idle"]
    /\ lop = [a \in Admins |-> NoOp]
    /\ inst = [a \in Admins |-> NoRow]
    /\ prev = [a \in Admins |-> FALSE]
    /\ iniciada = [c \in Comps |-> c = 1]
    /\ historia = [c \in Comps |-> [NoHistoria EXCEPT !.empezada = (c = 1)]]
    /\ llast = NoLLast

\* concurrent registrations while competition 1 runs
InitReg ==
    /\ InitRunning
    /\ InitRegistro
    /\ SinFila
    /\ SinListado
    /\ SinConexiones
    /\ equipo = EquiposPropios

NextReg == \E p \in Procs : RegistroStep(p)

SpecReg == InitReg /\ [][NextReg]_vars

\* one judge's requests against one administrator's lifecycle requests, from
\* the state before any start: the last team may be unassigned or assigned to
\* any judge, and may belong to any competition; a single registration
\* carries a record_id, a batch is complete
InitRegLife ==
    /\ InitLifecycle
    /\ \A c \in Comps : comp[c].is_active
    /\ InitRegistro
    /\ SinFila
    /\ SinListado
    /\ SinConexiones
    /\ \E j \in 0..NumJueces, c \in Comps :
          equipo = [EquiposPropios EXCEPT ![NumEquipos] = [judge |-> j, competition |-> c]]

RegOpsLife ==
    {op \in RegOps : /\ op.kind = "single" => op.record_id # 0
                     /\ op.kind # "single" => Len(op.batch) = MAX_REGISTROS}

NextRegLife ==
    \/ \E a \in {1} : LifecycleStep(a)
    \/ \E p \in {1} : RegistroStepOver(p, RegOpsLife)

SpecRegLife == InitRegLife /\ [][NextRegLife]_vars

\* ------------------------------------------------------ time of a record
\* ((hours * 3600 + minutes * 60 + seconds) * 1000) + milliseconds
TotalMs(h, m, s, ms) == ((h * 3600 + m * 60 + s) * 1000) + ms

\* any([horas, minutos, segundos, milisegundos])
AnyComponent(r) ==
    r.hours # 0 \/ r.minutes # 0 \/ r.seconds # 0 \/ r.milliseconds # 0

\* the components RegistroTiempo.save derives from a total
ComponentesSinModulo(total) ==
    [time |-> total,
     hours |-> ((total \div 1000) \div 60) \div 60,
     minutes |-> (total \div 1000) \div 60,
     seconds |-> (total \div 1000) % 60,
     milliseconds |-> total % 1000]
Componentes(total) ==
    [time |-> total,
     hours |-> ((total \div 1000) \div 60) \div 60,
     minutes |-> ((total \div 1000) \div 60) % 60,
     seconds |-> (total \div 1000) % 60,
     milliseconds |-> total % 1000]

\* RegistroTiempo.save: components that are not all zero decide the total,
\* else the total decides the components
Reconciliar(r) ==
    IF AnyComponent(r)
    THEN [r EXCEPT !.time = TotalMs(r.hours, r.minutes, r.seconds, r.milliseconds)]
    ELSE Componentes(r.time)

\* RegistroTiempo(record_id=..., team=..., time=time, hours=hours, ...): the
\* row is built from the values supplied, as they are
Construir(r) ==
    [time |-> r.time, hours |-> r.hours, minutes |-> r.minutes,
     seconds |-> r.seconds, milliseconds |-> r.milliseconds]

\* registrar_tiempo and _registrar_batch_impl write the row they built with
\* bulk_create, which issues the INSERT without calling save()
BulkCreateFila(via) ==
    /\ tpc = "none"
    /\ fila' = Construir(entrada)
    /\ tpc' = via
    /\ UNCHANGED <<entrada, lcore, llast, rcore, last, vcore, wcore, wlast>>

\* instance.save() of a RegistroTiempo built from the values supplied
SaveFila ==
    /\ tpc = "none"
    /\ fila' = Reconciliar(Construir(entrada))
    /\ tpc' = "save"
    /\ UNCHANGED <<entrada, lcore, llast, rcore, last, vcore, wcore, wlast>>

\* the totals and components the clients' values are drawn from
MaxHoras == 2
Totales == {0, 1, 999, 1000, 59999, 60000, 3599999, 3600000, 3661001,
            MaxHoras * 3600000 + 3599999}
Minutos == {0, 1, 59}
Segundos == {0, 59}
Milisegundos == {0, 1, 999}

InitTiempo ==
    /\ InitRunning
    /\ InitRegistro
    /\ equipo = EquiposPropios
    /\ SinListado
    /\ SinConexiones
    /\ entrada \in [time : Totales, hours : 0..MaxHoras, minutes : Minutos,
                    seconds : Segundos, milliseconds : Milisegundos]
    /\ fila = NoFila
    /\ tpc = "none"

NextTiempo ==
    \/ \E via \in {"single", "batch"} : BulkCreateFila(via)
    \/ SaveFila

\* one record's values on their way to a stored row
SpecTiempo == InitTiempo /\ [][NextTiempo]_vars

\* --------------------------------------------------------- results page
NumEquiposRes == 3
MaxRegistrosRes == 2
TiemposRes == {0, 1, 2}
EquiposRes == 1..NumEquiposRes

RECURSIVE Suma(_)
Suma(ts) == IF ts = <<>> THEN 0 ELSE Head(ts) + Suma(Tail(ts))

\* sum(1 for t in tiempos_competencia if t.time == 0)
JugadoresAusentesNegativos(ts) == Cardinality({i \in DOMAIN ts : ts[i] < 0})
JugadoresAusentes(ts) == Cardinality({i \in DOMAIN ts : ts[i] = 0})

\* min(t.time for t in tiempos_competencia if t.time > 0) if any is, else 0
MejorTiempo(ts) ==
    LET pos == {ts[i] : i \in {k \in DOMAIN ts : ts[k] > 0}}
    IN  IF pos = {} THEN 0 ELSE CHOOSE t \in pos : \A u \in pos : t <= u

\* the attributes the loop of _procesar_equipos sets on a team; posicion 0:
\* the attribute is not set
Procesado(e, ts) ==
    [equipo |-> e,
     jugadores_ausentes |-> JugadoresAusentes(ts),
     descalificado |-> JugadoresAusentes(ts) > 0,
     tiempo_total_ms |-> Suma(ts),
     mejor_tiempo_ms |-> MejorTiempo(ts),
     num_registros |-> Len(ts),
     jugadores_completados |-> Len(ts) - JugadoresAusentes(ts),
     posicion |-> 0]

\* the subsequence of seq whose elements satisfy the test, in order
RECURSIVE Calificados(_)
Calificados(seq) ==
    IF seq = <<>> THEN <<>>
    ELSE IF Head(seq).descalificado THEN Calificados(Tail(seq))
    ELSE <<Head(seq)>> \o Calificados(Tail(seq))

RECURSIVE Descalificados(_)
Descalificados(seq) ==
    IF seq = <<>> THEN <<>>
    ELSE IF Head(seq).descalificado THEN <<Head(seq)>> \o Descalificados(Tail(seq))
    ELSE Descalificados(Tail(seq))

\* key of the sort of the qualified teams: the total, a total of 0 last
\* (float('inf')); of the disqualified teams: the total
ClaveCalificadoTotal(x) == <<0, x.tiempo_total_ms>>
ClaveCalificado(x) == IF x.tiempo_total_ms > 0 THEN <<0, x.tiempo_total_ms>> ELSE <<1, 0>>
ClaveDescalificado(x) == <<0, x.tiempo_total_ms>>
Menor(k1, k2) == k1[1] < k2[1] \/ (k1[1] = k2[1] /\ k1[2] < k2[2])

\* list.sort(key=...): stable, ascending
Ordenar(seq, clave) ==
    LET Rank(i) == 1 + Cardinality({j \in DOMAIN seq :
                        \/ Menor(clave[j], clave[i])
                        \/ clave[j] = clave[i] /\ j < i})
    IN  [k \in DOMAIN seq |-> seq[CHOOSE i \in DOMAIN seq : Rank(i) = k]]

\* for idx, equipo in enumerate(equipos_calificados, 1): equipo.posicion = idx
Posiciones(seq) == [k \in DOMAIN seq |-> [seq[k] EXCEPT !.posicion = k]]

\* _procesar_equipos over the teams in the order of the queryset
ProcesarEquipos(ts) ==
    LET todos == [e \in EquiposRes |-> Procesado(e, ts[e])]
        cs == Calificados(todos)
        ds == Descalificados(todos)
    IN  [calificados |->
             Posiciones(Ordenar(cs, [i \in DOMAIN cs |-> ClaveCalificado(cs[i])])),
         descalificados |->
             Ordenar(ds, [i \in DOMAIN ds |-> ClaveDescalificado(ds[i])])]

\* competencia_detail_view: equipos_list = calificados + descalificados
DetailView ==
    /\ vpc = "none"
    /\ LET r == ProcesarEquipos(tiempos)
       IN  listado' = r.calificados \o r.descalificados
    /\ vpc' = "done"
    /\ UNCHANGED <<tiempos, lcore, llast, rcore, last, tcore, wcore, wlast>>

\* the prefetched times of a team: at most MaxRegistrosRes, ordered by time
TiemposDeEquipo ==
    {ts \in UNION {[1..n -> TiemposRes] : n \in 0..MaxRegistrosRes} :
        \A i \in 1..(Len(ts) - 1) : ts[i] <= ts[i + 1]}

InitResultados ==
    /\ InitRunning
    /\ InitRegistro
    /\ equipo = EquiposPropios
    /\ SinFila
    /\ SinConexiones
    /\ tiempos \in [EquiposRes -> TiemposDeEquipo]
    /\ listado = <<>>
    /\ vpc = "none"

NextResultados == DetailView

\* the results page of a competition, for any stored times of its teams
SpecResultados == InitResultados /\ [][NextResultados]_vars

\* ------------------------------------------------- faults in a transaction
\* an exception leaves `with transaction.atomic()`: ROLLBACK drops the
\* transaction's inserts and releases its row locks
RollbackNever(p) == Commit(p)
Rollback(p) ==
    /\ registros' = registros
    /\ pending' = [pending EXCEPT ![p] = {}]
    /\ lockOwner' = [e \in Equipos |-> IF lockOwner[e] = p THEN 0 ELSE lockOwner[e]]

\* what the `except Exception` that catches the fault returns: registrar_tiempo
\* its {'exito': False, 'error': 'Error al guardar registro'}, register_batch
\* every index failed with 'Error general'; in the view a fault inside the
\* service comes back as the service's failed result (400), one in the view's
\* own statements as 'Error interno' (500)
FaultResult(op, pc) ==
    CASE op.kind = "single" -> Failure(op, "error_guardar", 0)
      [] op.kind = "batch" -> Failure(op, "error_general", 0)
      [] OTHER ->
            IF pc \in {"service", "count", "binsert"}
            THEN Failure(op, "error_general", 400)
            ELSE [NoRegRes EXCEPT !.error = "error_interno", !.status = 500]

\* a storage fault (connection loss, lock timeout) or any other exception at
\* the statement request p is about to run
Falla(p) ==
    /\ rpc[p] # "idle"
    /\ rpc' = [rpc EXCEPT ![p] = "idle"]
    /\ rop' = [rop EXCEPT ![p] = NoRegOp]
    /\ rres' = [rres EXCEPT ![p] = NoRegRes]
    /\ acrear' = [acrear EXCEPT ![p] = <<>>]
    /\ rsent' = [rsent EXCEPT ![p] = <<>>]
    /\ last' = [proc |-> p, op |-> rop[p], res |-> FaultResult(rop[p], rpc[p]),
                sent |-> rsent[p], stored |-> {}]
    /\ Rollback(p)
    /\ UNCHANGED <<equipo, nextUuid>>
    /\ LifecycleUnchanged

\* one judge's client at a time, any payload, any fault: the last team may be
\* unassigned or assigned to any judge, and may belong to any competition
\* (competition 1 runs, the others do not)
InitBatch ==
    /\ InitRunning
    /\ InitRegistro
    /\ SinFila
    /\ SinListado
    /\ SinConexiones
    /\ \E j \in 0..NumJueces, c \in Comps :
          equipo = [EquiposPropios EXCEPT ![NumEquipos] = [judge |-> j, competition |-> c]]

BatchesFalta == Batches \cup {BatchFalta, <<>>}

RegOpsBatch ==
    RegOps \cup
    {[kind |-> k, juez |-> j, equipo_id |-> e, record_id |-> 0,
      time |-> NoTime, batch |-> b] :
        k \in {"batch", "http"}, j \in Jueces, e \in EquipoIds, b \in BatchesFalta}

NextBatch ==
    \E p \in {1} :
        \/ RegistroStepOver(p, RegOpsBatch)
        \/ Falla(p)

SpecBatch == InitBatch /\ [][NextBatch]_vars

\* ------------------------------------------------- judge live connection
\* the token of the handshake's query string: absent, one AccessToken(token)
\* raises on, or a valid one with its juez_id claim (0: the claim is missing,
\* NumJueces + 1: the id of no Juez row)
Tokens ==
    {NoToken, [presente |-> TRUE, valido |-> FALSE, juez_id |-> 0]}
    \cup {[presente |-> TRUE, valido |-> TRUE, juez_id |-> j] : j \in 0..(NumJueces + 1)}

\* the juez_id of the URL route
UrlIds == 1..NumJueces

\* get_juez_from_token: the judge's id, 0 for None
JuezFromToken(token) ==
    IF /\ token.valido
       /\ token.juez_id \in Jueces
       /\ juezActivo[token.juez_id]
    THEN token.juez_id
    ELSE 0

\* which statement of get_juez_from_token made it return None
CausaNone(token) ==
    CASE ~token.valido -> "token_invalido"
      [] token.juez_id = 0 -> "token_invalido"
      [] token.juez_id \notin Jueces -> "juez_inexistente"
      [] OTHER -> "juez_inactivo"

\* verificar_competencia_activa:
\* juez.teams.filter(competition__is_active=True).exists()
CompetenciaActiva(j) ==
    \E e \in JudgeTeams(j) : comp[equipo[e].competition].is_active

\* get_competencia_id_del_juez: the competition of the judge's first team,
\* 0 for None
CompetenciaIdDelJuez(j) ==
    IF JudgeTeams(j) = {} THEN 0 ELSE CompetenciaJuez(j)

\* validators.obtener_estado_competencia: id and is_running of the competition
\* of the judge's first team among those whose competition is active
ObtenerEstado(j) ==
    LET ts == {e \in JudgeTeams(j) : comp[equipo[e].competition].is_active}
    IN  IF ts = {} THEN NoEstado
        ELSE LET c == equipo[CHOOSE e \in ts : \A x \in ts : e <= x].competition
             IN  [id |-> c, en_curso |-> comp[c].is_running]

\* send_json(msg) on connection record r
Enviar(r, msg) ==
    [r EXCEPT !.primero = IF @ = NoMensaje THEN msg ELSE @,
              !.visto = IF msg.competencia # 0
                        THEN [id |-> msg.competencia, en_curso |-> msg.en_curso]
                        ELSE @]

\* `await self.close(code=...)` is followed by `return`: connect ends there
CloseAndGoOn(sigue) == sigue
CloseAndReturn(sigue) == "closed"

\* self.close(code) of a connection that connect rejects
Cerrar(c, code, causa, sigue) ==
    /\ ws' = [ws EXCEPT ![c].code = code, ![c].causa = causa,
                        ![c].pc = CloseAndReturn(sigue)]
    /\ UNCHANGED grupos

\* the handshake arrives: `if not token` closes with 4001
Connect(c, token, url) ==
    /\ ws[c].pc = "none"
    /\ IF ~token.presente
       THEN /\ ws' = [ws EXCEPT ![c].kind = "juez", ![c].url = url, ![c].code = 4001,
                                ![c].causa = "token_ausente",
                                ![c].pc = CloseAndReturn("token")]
            /\ UNCHANGED grupos
       ELSE /\ ws' = [ws EXCEPT ![c].kind = "juez", ![c].token = token,
                                ![c].url = url, ![c].pc = "token"]
            /\ UNCHANGED grupos

\* `juez = await get_juez_from_token(token)`: None closes with 4002, an
\* exception of the call with 4000; then the juez_id of the URL is compared
\* with the judge's id, a difference closes with 4003
GetJuez(c, raises) ==
    /\ ws[c].pc = "token"
    /\ LET juez == JuezFromToken(ws[c].token)
       IN  IF raises
           THEN Cerrar(c, 4000, "error_validacion", "activa")
           ELSE IF juez = 0
           THEN Cerrar(c, 4002, CausaNone(ws[c].token), "activa")
           ELSE IF juez # ws[c].url
           THEN /\ ws' = [ws EXCEPT ![c].juez = juez, ![c].code = 4003,
                                    ![c].causa = "juez_distinto",
                                    ![c].pc = CloseAndReturn("activa")]
                /\ UNCHANGED grupos
           ELSE /\ ws' = [ws EXCEPT ![c].juez = juez, ![c].pc = "activa"]
                /\ UNCHANGED grupos

\* `await verificar_competencia_activa(self.juez)`: False closes with 4004;
\* else self.group_name is set
VerificarCompetencia(c) ==
    /\ ws[c].pc = "activa"
    /\ IF ~CompetenciaActiva(ws[c].juez)
       THEN Cerrar(c, 4004, "sin_competencia", "competencia")
       ELSE /\ ws' = [ws EXCEPT ![c].group_name = TRUE, ![c].pc = "competencia"]
            /\ UNCHANGED grupos

\* `competencia_id = await self.get_competencia_id_del_juez()` and, when there
\* is one, the group_add to the competition's group
JoinCompetencia(c) ==
    /\ ws[c].pc = "competencia"
    /\ LET id == CompetenciaIdDelJuez(ws[c].juez)
       IN  IF id # 0
           THEN /\ ws' = [ws EXCEPT ![c].competencia_group = id, ![c].joined = TRUE,
                                    ![c].pc = "juez"]
                /\ grupos' = grupos \cup {[group |-> <<"competencia", id>>, channel |-> c]}
           ELSE /\ ws' = [ws EXCEPT ![c].pc = "juez"]
                /\ UNCHANGED grupos

\* `await self.channel_layer.group_add(self.group_name, self.channel_name)`
JoinJuez(c) ==
    /\ ws[c].pc = "juez"
    /\ ws' = [ws EXCEPT ![c].joined = TRUE, ![c].pc = "accept"]
    /\ grupos' = grupos \cup {[group |-> <<"juez", ws[c].url>>, channel |-> c]}

\* `await self.accept()`
Accept(c) ==
    /\ ws[c].pc = "accept"
    /\ ws' = [ws EXCEPT ![c].accepted = TRUE, ![c].pc = "estado"]
    /\ UNCHANGED grupos

\* `estado_competencia = await obtener_estado_competencia(self.juez)`
LeerEstado(c) ==
    /\ ws[c].pc = "estado"
    /\ ws' = [ws EXCEPT ![c].estado = ObtenerEstado(ws[c].juez), ![c].pc = "snapshot"]
    /\ UNCHANGED grupos

\* the 'conexion_establecida' message with the state read; connect returns
EnviarEstado(c) ==
    /\ ws[c].pc = "snapshot"
    /\ ws' = [ws EXCEPT ![c] =
                Enviar([@ EXCEPT !.pc = "open"],
                       [NoMensaje EXCEPT !.tipo = "conexion_establecida",
                                         !.competencia = ws[c].estado.id,
                                         !.en_curso = ws[c].estado.en_curso])]
    /\ UNCHANGED grupos

\* JuezConsumer.competencia_iniciada / competencia_detenida /
\* registros_actualizados: the message built from the event's data
MensajeJuez(ev) ==
    IF ev.tipo = "registros_actualizados"
    THEN [NoMensaje EXCEPT !.tipo = ev.tipo,
                           !.data = [equipo_id |-> ev.equipo_id,
                                     total_registros |-> ev.total_registros]]
    ELSE [NoMensaje EXCEPT !.tipo = ev.tipo,
                           !.competencia = ev.competencia_id,
                           !.en_curso = ev.en_curso]

\* CompetenciaPublicConsumer's three handlers: {'tipo': ..., 'data': data}
MensajePublicoSinData(ev) == [NoMensaje EXCEPT !.tipo = ev.tipo]
MensajePublico(ev) == [NoMensaje EXCEPT !.tipo = ev.tipo, !.data = ev]

\* the consumer, its connect done, handles the next group message
ProcesarEvento(c) ==
    /\ ws[c].pc = "open"
    /\ ws[c].cola # <<>>
    /\ LET ev == Head(ws[c].cola)
           msg == IF ws[c].kind = "juez" THEN MensajeJuez(ev) ELSE MensajePublico(ev)
       IN  /\ ws' = [ws EXCEPT ![c] = Enviar([@ EXCEPT !.cola = Tail(@)], msg)]
           /\ wlast' = [NoWLast EXCEPT !.conn = c, !.evento = ev, !.enviado = msg]
    /\ UNCHANGED grupos

\* the inbound message types a client may send
TiposEntrantes == {"ping", "registrar_tiempo", "registrar_tiempos", "otro"}

\* receive_json's reply: JuezConsumer answers a ping with pong, a
\* registration with an error that says to use HTTP, anything else with an
\* error; CompetenciaPublicConsumer answers a ping only
Respuesta(kind, tipo) ==
    IF tipo = "ping" THEN [NoMensaje EXCEPT !.tipo = "pong"]
    ELSE IF kind # "juez" THEN NoMensaje
    ELSE IF tipo \in {"registrar_tiempo", "registrar_tiempos"}
    THEN [NoMensaje EXCEPT !.tipo = "error", !.usar_http = TRUE]
    ELSE [NoMensaje EXCEPT !.tipo = "error"]

\* whether receive_json hands a registration message to
\* manejar_registro_tiempo / manejar_registro_tiempos_batch: it does not
ManejaRegistroComoAntes(kind, tipo) ==
    kind = "juez" /\ tipo \in {"registrar_tiempo", "registrar_tiempos"}
ManejaRegistro(kind, tipo) == FALSE

\* receive_json: one inbound message, the reply if any; a message handed to
\* manejar_registro_tiempo would store a record of the judge's first team
Receive(c, tipo) ==
    /\ ws[c].pc = "open"
    /\ LET r == Respuesta(ws[c].kind, tipo)
       IN  /\ ws' = [ws EXCEPT ![c] = IF r = NoMensaje THEN @ ELSE Enviar(@, r)]
           /\ wlast' = [NoWLast EXCEPT !.conn = c, !.recibido = tipo, !.enviado = r]
    /\ registros' =
         IF ManejaRegistro(ws[c].kind, tipo) /\ JudgeTeams(ws[c].juez) # {}
         THEN registros \cup
                {[record_id |-> ClientIdMax,
                  team |-> CHOOSE e \in JudgeTeams(ws[c].juez) :
                              \A x \in JudgeTeams(ws[c].juez) : e <= x,
                  time |-> 1]}
         ELSE registros
    /\ UNCHANGED grupos

\* CompetenciaPublicConsumer.connect: the group of the URL's competencia_id
\* (any number the route matches; 0 is the id of no competition)
PublicConnect(c, id) ==
    /\ ws[c].pc = "none"
    /\ ws' = [ws EXCEPT ![c].kind = "publico", ![c].url = id,
                        ![c].group_name = TRUE, ![c].pc = "pub_join"]
    /\ UNCHANGED grupos

\* group_add(self.group_name, self.channel_name)
PublicJoin(c) ==
    /\ ws[c].pc = "pub_join"
    /\ ws' = [ws EXCEPT ![c].joined = TRUE, ![c].pc = "pub_accept"]
    /\ grupos' = grupos \cup {[group |-> <<"competencia", ws[c].url>>, channel |-> c]}

\* accept() and the 'conexion_establecida' message with the competencia_id
PublicAccept(c) ==
    /\ ws[c].pc = "pub_accept"
    /\ ws' = [ws EXCEPT ![c] =
                Enviar([@ EXCEPT !.accepted = TRUE, !.pc = "open"],
                       [NoMensaje EXCEPT !.tipo = "conexion_establecida",
                                         !.data = [competencia_id |-> ws[c].url]])]
    /\ UNCHANGED grupos

\* the groups a consumer's disconnect names, in the order of its
\* group_discard calls; JuezConsumer's second call fails on the attribute
\* when connect set no competencia_group
GruposADescartar(r) ==
    IF ~r.group_name THEN <<>>
    ELSE IF r.kind = "publico" THEN << <<"competencia", r.url>> >>
    ELSE IF r.competencia_group = 0 THEN << <<"juez", r.url>> >>
    ELSE << <<"juez", r.url>>, <<"competencia", r.competencia_group>> >>

\* the calls of disconnect that run: they sit in one try block, so the
\* first group_discard that raises ends them (raises: the number of the
\* call that raises, 0 for none)
Descartados(gs, raises) ==
    {gs[i] : i \in {k \in DOMAIN gs : raises = 0 \/ k < raises}}

\* disconnect, after the server closed the socket or the client left; the
\* exception of a group_discard is swallowed
Disconnect(c, raises) ==
    /\ ws[c].pc \in {"closed", "open"}
    /\ LET gs == GruposADescartar(ws[c])
       IN  /\ raises \in 0..Len(gs)
           /\ ws' = [ws EXCEPT ![c].pc = "gone", ![c].cola = <<>>,
                               ![c].fallados = IF raises = 0 THEN {} ELSE {gs[raises]}]
           /\ grupos' = {m \in grupos :
                           ~(m.channel = c /\ m.group \in Descartados(gs, raises))}

\* the steps of a judge's connection, its handshake drawn from tokens, urls
JuezStepOver(c, tokens, urls) ==
    \/ \E token \in tokens, url \in urls : Connect(c, token, url)
    \/ \E raises \in BOOLEAN : GetJuez(c, raises)
    \/ VerificarCompetencia(c)
    \/ JoinCompetencia(c)
    \/ JoinJuez(c)
    \/ Accept(c)
    \/ LeerEstado(c)
    \/ EnviarEstado(c)

\* the steps of a public viewer's connection
PublicStep(c) ==
    \/ \E id \in CompIds : PublicConnect(c, id)
    \/ PublicJoin(c)
    \/ PublicAccept(c)

\* a step of a consumer leaves the rest alone
SoloConexion ==
    /\ last' = NoLast
    /\ llast' = NoLLast
    /\ UNCHANGED <<juezActivo, lcore, tcore, vcore>>
    /\ UNCHANGED <<equipo, pending, lockOwner, nextUuid, rpc, rop, acrear, rres, rsent>>

\* connecting and disconnecting
ConexionStep(c) ==
    /\ \/ JuezStepOver(c, Tokens, UrlIds)
       \/ PublicStep(c)
       \/ \E raises \in 0..2 : Disconnect(c, raises)
    /\ UNCHANGED registros
    /\ wlast' = NoWLast
    /\ SoloConexion

\* an open connection at work: the messages of its client and of its groups
TrabajoStep(c) ==
    /\ \/ ProcesarEvento(c) /\ UNCHANGED registros
       \/ \E tipo \in TiposEntrantes : Receive(c, tipo)
    /\ SoloConexion

\* judges connecting: any judge may be inactive, any competition inactive,
\* the last team unassigned or assigned to any judge, in any competition
InitConexion ==
    /\ InitLifecycle
    /\ InitRegistro
    /\ SinFila
    /\ SinListado
    /\ \E j \in 0..NumJueces, c \in Comps :
          equipo = [EquiposPropios EXCEPT ![NumEquipos] = [judge |-> j, competition |-> c]]
    /\ juezActivo \in [Jueces -> BOOLEAN]
    /\ ws = [c \in Conns |-> NoConn]
    /\ grupos = {}
    /\ wlast = NoWLast

NextConexion == \E c \in Conns : ConexionStep(c)

SpecConexion == InitConexion /\ [][NextConexion]_vars

\* ------------------------------------------- connections at work, live
\* the tokens of judges that exist
TokensValidos == {[presente |-> TRUE, valido |-> TRUE, juez_id |-> j] : j \in Jueces}

\* a connection of either consumer: its connect, its work, its disconnect
VivoStep(c) ==
    \/ /\ \/ JuezStepOver(c, TokensValidos, UrlIds)
          \/ PublicStep(c)
          \/ \E raises \in 0..2 : Disconnect(c, raises)
       /\ UNCHANGED registros
       /\ wlast' = NoWLast
       /\ SoloConexion
    \/ TrabajoStep(c)

\* every judge and every competition is active; the last team is judge 1's,
\* in any competition
InitVivo ==
    /\ InitLifecycle
    /\ \A k \in Comps : comp[k].is_active
    /\ InitRegistro
    /\ SinFila
    /\ SinListado
    /\ SinConexiones
    /\ \E k \in Comps :
          equipo = [EquiposPropios EXCEPT ![NumEquipos] = [judge |-> 1, competition |-> k]]

\* a connection beside the start and stop requests of one administrator
NextVivo ==
    \/ \E a \in {1} : LifecycleStep(a)
    \/ \E c \in {1} : VivoStep(c)

SpecVivo == InitVivo /\ [][NextVivo]_vars

\* ------------------------------------------------ the public viewer, live
\* judge 1 posts a batch of MAX_REGISTROS times of team 1
OpHttp ==
    [kind |-> "http", juez |-> 1, equipo_id |-> 1, record_id |-> 0,
     time |-> NoTime, batch |-> BatchOf(MAX_REGISTROS)]

\* the steps of RegistrarTiemposView.post
HttpStep(p) ==
    \/ Begin(p, OpHttp)
    \/ Lock(p)
    \/ Service(p)
    \/ Count(p)
    \/ \E pubOk \in BOOLEAN : BatchInsert(p, pubOk)
    \/ CommitStep(p)

\* a viewer's connection: its connect, its work, its disconnect
ViewerStep(c) ==
    \/ /\ \/ PublicStep(c)
          \/ \E raises \in 0..1 : Disconnect(c, raises)
       /\ UNCHANGED registros
       /\ wlast' = NoWLast
       /\ SoloConexion
    \/ TrabajoStep(c)

InitPublico ==
    /\ InitLifecycle
    /\ \A k \in Comps : comp[k].is_active
    /\ InitRegistro
    /\ SinFila
    /\ SinListado
    /\ SinConexiones
    /\ equipo = EquiposPropios

\* a viewer beside the requests that publish: start and stop, and a batch
NextPublico ==
    \/ \E a \in {1} : LifecycleStep(a)
    \/ \E p \in {1} : HttpStep(p)
    \/ \E c \in {1} : ViewerStep(c)

SpecPublico == InitPublico /\ [][NextPublico]_vars

\* --------------------------------------------- restart, beside registration
\* judge 1 registers one time of one of the teams, or posts a batch for team 1
RegOpsReinicio ==
    {[kind |-> "single", juez |-> 1, equipo_id |-> e, record_id |-> ClientIdMax,
      time |-> 1, batch |-> <<>>] : e \in Equipos}
    \cup {OpHttp}

\* any competition may be inactive; the last team is judge 1's, in any
\* competition
InitReinicio ==
    /\ InitLifecycle
    /\ InitRegistro
    /\ SinFila
    /\ SinListado
    /\ SinConexiones
    /\ \E k \in Comps :
          equipo = [EquiposPropios EXCEPT ![NumEquipos] = [judge |-> 1, competition |-> k]]

NextReinicio ==
    \/ \E a \in {1} : LifecycleStep(a)
    \/ \E p \in {1} : RegistroStepOver(p, RegOpsReinicio)

SpecReinicio == InitReinicio /\ [][NextReinicio]_vars

\* ------------------------------------------------- the load test's batches
\* enviar_registros: judge p posts MAX_REGISTROS records for team p, their
\* id_registro values (uuid4 in the test) those of no other record
OpCarga(p) ==
    [kind |-> "http", juez |-> p, equipo_id |-> p, record_id |-> 0, time |-> NoTime,
     batch |-> [i \in 1..MAX_REGISTROS |->
                  [id_registro |-> (p - 1) * MAX_REGISTROS + i, tiempo |-> i]]]

\* the steps of the POST of judge p
CargaStep(p) ==
    \/ Begin(p, OpCarga(p))
    \/ Lock(p)
    \/ Service(p)
    \/ Count(p)
    \/ \E pubOk \in BOOLEAN : BatchInsert(p, pubOk)
    \/ CommitStep(p)

\* competition 1 runs; judge t owns team t, which has no record
InitCarga ==
    /\ InitRunning
    /\ InitRegistro
    /\ SinFila
    /\ SinListado
    /\ SinConexiones
    /\ equipo = EquiposPropios

\* ejecutar_prueba_carga: the judges post in parallel
NextCarga == \E p \in Procs \cap Jueces \cap Equipos : CargaStep(p)

SpecCarga == InitCarga /\ [][NextCarga]_vars

\* ------------------------------------------------------ lifecycle claims
Running == {c \in Comps : comp[c].is_running}

\* this step is the load of a start request of admin a
LoadsStart(a) ==
    /\ lpc[a] = "idle"
    /\ \/ lpc'[a] = "check"
       \/ llast'.admin = a /\ llast'.op.op = "start"

\* the competition the start request loaded in this step names
StartTarget(a) == IF lpc[a] = "check" THEN lop[a].id ELSE llast.op.id

\* this step is the conflict query of a's start request
ChecksStart(a) == lpc[a] = "check" /\ lpc'[a] # "check"

\* this step is the save of a's start request
SavesStart(a) == lpc[a] = "save" /\ lop[a].op = "start" /\ llast'.admin = a

\* C1: in every reachable state at most one competition has is_running = true
C1_AtMostOneRunning == Cardinality(Running) <= 1

C7_StartOnRunningIsNoOp ==
    [][\A a \in Admins :
        (/\ LoadsStart(a)
         /\ StartTarget(a)' \in Comps
         /\ comp[StartTarget(a)'].is_running)
           => /\ llast'.admin = a
              /\ llast'.res = Result(FALSE, "already_running", 0)
              /\ llast'.sent = <<>>
              /\ ~llast'.wrote
              /\ comp' = comp
      ]_vars

\* C7 witness: a start request has just returned already_running for a
\* competition an earlier start made running
C7_Witness ==
    /\ llast.op.op = "start"
    /\ llast.res.message = "already_running"
    /\ comp[llast.op.id].is_running
    /\ comp[llast.op.id].started_at > 0

\* C8: a start or stop request that reports failure has written no row and
\* has published no event
C8_FailureHasNoEffect ==
    (llast # NoLLast /\ ~llast.res.success) => (~llast.wrote /\ llast.sent = <<>>)

\* C9: a successful start(C) has published exactly one event, a
\* competencia_iniciada with C's id, name and start timestamp, to the group
\* of C; a successful stop(C) exactly one competencia_detenida to that group
C9_ExactlyOneEvent ==
    (llast # NoLLast /\ llast.res.success)
       => /\ Len(llast.sent) = 1
          /\ llast.sent[1].group = llast.op.id
          /\ llast.sent[1].competencia_id = llast.op.id
          /\ llast.sent[1].competencia_nombre = llast.op.id
          /\ llast.op.op = "start"
               => /\ llast.sent[1].tipo = "competencia_iniciada"
                  /\ llast.sent[1].started_at = llast.inst.started_at
          /\ llast.op.op = "stop" => llast.sent[1].tipo = "competencia_detenida"

\* --------------------------------------------------- registration claims
\* the stored rows of team e
Stored(e) == {r \in registros : r.team = e}

\* the stored rows of team e after the step
StoredNext(e) == {r \in registros' : r.team = e}

\* the rows a batch stores for team e when none of them is skipped
Rows(e, batch) ==
    {[record_id |-> batch[i].id_registro, team |-> e, time |-> batch[i].tiempo] :
        i \in 1..Len(batch)}

\* request p took a step
Steps(p) == rpc'[p] # rpc[p] \/ last'.proc = p

\* the team the operation names exists and is not assigned to the caller
Ajeno(op) == op.equipo_id \in Equipos /\ equipo[op.equipo_id].judge # op.juez

\* a complete batch of 15 records with ids 1..15
EsBatch15(op) == op.kind \in {"batch", "http"} /\ op.batch = BatchOf(MAX_REGISTROS)

\* the response just returned answers a resubmission by the team's judge: the
\* identical batch was stored for the team before this call, which stored
\* nothing
Replayed ==
    /\ EsBatch15(last.op)
    /\ last.op.equipo_id \in Equipos
    /\ equipo[last.op.equipo_id].judge = last.op.juez
    /\ last.stored = {}
    /\ Rows(last.op.equipo_id, last.op.batch) \subseteq registros

\* C2: a record_id is stored at most once, and of the successful
\* registrar_tiempo calls that carry a record_id the one that stored the row
\* returns duplicado = false and every one that stored nothing returns
\* duplicado = true
C2_SameRecordIdOnce ==
    /\ \A r1, r2 \in registros : r1.record_id = r2.record_id => r1 = r2
    /\ (last.op.kind = "single" /\ last.op.record_id # 0 /\ last.res.exito)
          => /\ \E r \in registros : r.record_id = last.op.record_id
             /\ last.res.duplicado <=> last.stored = {}

\* C3: in every reachable state each team has at most 15 TimeRecords, the
\* uncommitted inserts of the transactions in progress included
C3_AtMostFifteen ==
    \A e \in Equipos :
        Cardinality(Stored(e) \cup
                    UNION {{r \in pending[p] : r.team = e} : p \in Procs})
            <= MAX_REGISTROS_POR_EQUIPO

\* C3 witness: a team holds 15 records and a further registration for it has
\* just been refused at the limit
C3_Witness ==
    \E e \in Equipos :
        /\ Cardinality(Stored(e)) = MAX_REGISTROS_POR_EQUIPO
        /\ last.op.kind = "single" /\ last.op.equipo_id = e
        /\ ~last.res.exito /\ last.res.error = "limite"

\* C4: a registration call (single or batch; at the endpoint with a body of
\* 15 records) made by a judge with teams while the competition of the judge
\* is outside a started period (its latest successful start or stop was a
\* stop, or it was never successfully started) fails at once with the
\* not-running error and stores nothing
C4_NotRunningWindow ==
    [][\A p \in Procs :
        (/\ rpc[p] = "idle"
         /\ rpc'[p] = "lock" \/ last'.proc = p
         /\ LET op == IF rpc'[p] = "lock" THEN rop'[p] ELSE last'.op
            IN  /\ op.kind = "http" => Len(op.batch) = MAX_REGISTROS
                /\ JudgeTeams(op.juez) # {}
                /\ ~iniciada[CompetenciaJuez(op.juez)])
           => /\ last'.proc = p
              /\ ~last'.res.exito
              /\ last'.res.error = "not_running"
              /\ last'.stored = {}
              /\ registros' = registros
      ]_vars

\* C5 (as stated): a registration for a team that is not assigned to the
\* caller fails with the team-not-owned error and stores nothing
C5_Original ==
    (last # NoLast /\ Ajeno(last.op))
       => /\ ~last.res.exito
          /\ last.res.error = "not_owned"
          /\ last.stored = {}

\* C5 (amended): a registration for an existing team that is not assigned to
\* the caller stores nothing and fails. It is turned away at the entry with
\* the error of the first check that fails there (an endpoint body that is
\* empty or not of 15 records, a caller without teams, the competition of the
\* caller's first team not running); when all of these pass it takes the
\* team's row and fails with the team-not-owned error, and it never gets past
\* that check
C5_NotOwnedStoresNothing ==
    [][\A p \in Procs :
        /\ (rpc[p] = "idle" /\ last'.proc = p /\ Ajeno(last'.op))
           => LET op == last'.op
              IN  /\ ~last'.res.exito
                  /\ last'.stored = {}
                  /\ registros' = registros
                  /\ last'.res.error =
                        IF op.kind = "http" /\ op.batch = <<>> THEN "no_registros"
                        ELSE IF op.kind = "http" /\ Len(op.batch) # MAX_REGISTROS
                        THEN "se_requieren_15"
                        ELSE IF \A e \in Equipos : equipo[e].judge # op.juez
                        THEN "no_teams"
                        ELSE "not_running"
                  /\ last'.res.error = "not_running"
                        => ~comp[CompetenciaJuez(op.juez)].is_running
        /\ (rpc[p] = "idle" /\ rpc'[p] = "lock" /\ Ajeno(rop'[p]))
           => /\ rop'[p].kind = "http" => Len(rop'[p].batch) = MAX_REGISTROS
              /\ \E e \in Equipos : equipo[e].judge = rop'[p].juez
              /\ comp[CompetenciaJuez(rop'[p].juez)].is_running
        /\ (rpc[p] = "lock" /\ Steps(p) /\ Ajeno(rop[p]))
           => /\ last'.proc = p
              /\ last'.op = rop[p]
              /\ ~last'.res.exito
              /\ last'.res.error = "not_owned"
              /\ last'.res.guardados = <<>>
              /\ last'.stored = {}
              /\ last'.sent = <<>>
              /\ registros' = registros
        /\ rpc[p] \notin {"idle", "lock"} => ~Ajeno(rop[p])
      ]_vars

\* C5 witness: a registration for a team of another judge has just been
\* refused with the team-not-owned error while records are stored
C5_Witness ==
    /\ Ajeno(last.op)
    /\ last.res.error = "not_owned"
    /\ registros # {}

\* C10 (as stated): a batch of 15 that stored its 15 rows is reported as 15
\* saved; the resubmitted identical batch is reported as 15 duplicates, none
\* failed, and the team still has 15 records
C10_Original ==
    /\ (EsBatch15(last.op) /\ last.stored # {}
        /\ last.stored = Rows(last.op.equipo_id, last.op.batch))
          => /\ last.res.exito
             /\ last.res.total_guardados = MAX_REGISTROS
             /\ last.res.fallidos = <<>>
    /\ Replayed
          => /\ last.res.exito
             /\ Len(last.res.guardados) = MAX_REGISTROS
             /\ \A i \in 1..Len(last.res.guardados) : last.res.guardados[i].duplicado
             /\ last.res.fallidos = <<>>
             /\ Cardinality(Stored(last.op.equipo_id)) = MAX_REGISTROS

\* C10 (amended): a batch of 15 records with ids that are not stored, for a
\* team without records, is queued whole, inserts its 15 rows and reports 15
\* saved, none duplicate, none failed; the resubmitted identical batch is
\* refused as a whole because the team already has records: nothing saved,
\* nothing reported duplicate, all 15 indices failed, nothing published, and
\* the team still has its 15 records
C10_ReplayIsRefused ==
    [][\A p \in Procs :
        LET op == rop[p]
            e == op.equipo_id
        IN  /\ (rpc[p] = "count" /\ Steps(p) /\ EsBatch15(op) /\ Stored(e) = {})
               => /\ rpc'[p] = "binsert"
                  /\ Len(acrear'[p]) = MAX_REGISTROS
                  /\ rres'[p].fallidos = <<>>
            /\ (/\ rpc[p] = "binsert" /\ Steps(p) /\ EsBatch15(op)
                /\ \A r \in registros : r.record_id \notin 1..MAX_REGISTROS)
               => /\ pending'[p] = Rows(e, op.batch)
                  /\ rres'[p].exito
                  /\ rres'[p].total_guardados = MAX_REGISTROS
                  /\ Len(rres'[p].guardados) = MAX_REGISTROS
                  /\ \A i \in 1..MAX_REGISTROS :
                        /\ rres'[p].guardados[i].id_registro = i
                        /\ ~rres'[p].guardados[i].duplicado
                  /\ rres'[p].fallidos = <<>>
            /\ (rpc[p] = "commit" /\ Steps(p) /\ EsBatch15(op))
               => /\ last'.proc = p
                  /\ last'.res = rres[p]
                  /\ last'.stored = pending[p]
                  /\ pending[p] = Rows(e, op.batch)
                        => StoredNext(e) = Rows(e, op.batch)
            /\ (/\ rpc[p] = "count" /\ Steps(p) /\ EsBatch15(op)
                /\ Rows(e, op.batch) \subseteq registros)
               => /\ last'.proc = p
                  /\ last'.op = op
                  /\ ~last'.res.exito
                  /\ last'.res.total_guardados = 0
                  /\ last'.res.guardados = <<>>
                  /\ Len(last'.res.fallidos) = MAX_REGISTROS
                  /\ \A i \in 1..MAX_REGISTROS :
                        last'.res.fallidos[i] = [indice |-> i - 1, error |-> "ya_tiene"]
                  /\ last'.stored = {}
                  /\ last'.sent = <<>>
                  /\ registros' = registros
                  /\ Cardinality(StoredNext(e)) = MAX_REGISTROS
      ]_vars

\* C10 witness: the identical batch of 15 has just been resubmitted and
\* refused, and the team has 15 records
C10_Witness ==
    /\ Replayed
    /\ last.res.error = "ya_tiene"
    /\ Cardinality(Stored(last.op.equipo_id)) = MAX_REGISTROS

\* ------------------------------------------------ batch outcome claims
\* the response just returned answers a complete batch, with ids that were
\* not stored, sent by the team's judge for a team that had exactly one
\* record before the call
BatchOnOneRecord ==
    /\ EsBatch15(last.op)
    /\ last.op.equipo_id \in Equipos
    /\ equipo[last.op.equipo_id].judge = last.op.juez
    /\ Cardinality(Stored(last.op.equipo_id) \ last.stored) = 1
    /\ \A r \in registros \ last.stored : r.record_id \notin 1..MAX_REGISTROS

\* C11 (as stated): a batch of 15 new records for a team that has 1 record
\* stores exactly 14 of them, the team ends with exactly 15 records, and
\* exactly one record of the batch is reported failed, with the limit reason
C11_Original ==
    BatchOnOneRecord
       => /\ Cardinality(last.stored) = MAX_REGISTROS_POR_EQUIPO - 1
          /\ Cardinality(Stored(last.op.equipo_id)) = MAX_REGISTROS_POR_EQUIPO
          /\ Len(last.res.fallidos) = 1
          /\ last.res.fallidos[1].error = "limite"

\* C11 (amended): a batch of 15 new records for a team that has 1 record
\* stores none of them: the team still has exactly 1 record, and all 15
\* records of the batch are reported failed because the team already has
\* records
C11_BatchOnOneRecordRefused ==
    BatchOnOneRecord
       => /\ last.stored = {}
          /\ Cardinality(Stored(last.op.equipo_id)) = 1
          /\ ~last.res.exito
          /\ last.res.total_guardados = 0
          /\ last.res.guardados = <<>>
          /\ Len(last.res.fallidos) = MAX_REGISTROS
          /\ \A i \in 1..MAX_REGISTROS :
                last.res.fallidos[i] = [indice |-> i - 1, error |-> "ya_tiene"]

\* C11 witness: a complete batch has just been refused for a team with one
\* record
C11_Witness ==
    /\ BatchOnOneRecord
    /\ last.res.error = "ya_tiene"
    /\ Cardinality(Stored(last.op.equipo_id)) = 1

\* ---------------------------------------------------------- time claims
\* C12: every row written by registrar_tiempo or the batch registration has
\* time = ((hours * 3600 + minutes * 60 + seconds) * 1000 + milliseconds),
\* whatever time and components the client supplied
C12_TotalMatchesComponents ==
    tpc \in {"single", "batch"}
       => fila.time = ((fila.hours * 3600 + fila.minutes * 60 + fila.seconds) * 1000
                       + fila.milliseconds)

\* C13: save reconciles the time: with a component that is not zero the
\* stored total is h * 3600000 + m * 60000 + s * 1000 + ms of the components
\* supplied, which are stored as they are; with a total alone the stored total
\* is that total and the derived components are in range (minutes and seconds
\* within 0..59, milliseconds within 0..999) and sum to exactly that total
C13_SaveRoundTrips ==
    tpc = "save"
       => IF entrada.hours # 0 \/ entrada.minutes # 0 \/ entrada.seconds # 0
             \/ entrada.milliseconds # 0
          THEN /\ fila.time = entrada.hours * 3600000 + entrada.minutes * 60000
                              + entrada.seconds * 1000 + entrada.milliseconds
               /\ fila.hours = entrada.hours
               /\ fila.minutes = entrada.minutes
               /\ fila.seconds = entrada.seconds
               /\ fila.milliseconds = entrada.milliseconds
          ELSE /\ fila.time = entrada.time
               /\ fila.hours >= 0
               /\ fila.minutes \in 0..59
               /\ fila.seconds \in 0..59
               /\ fila.milliseconds \in 0..999
               /\ fila.hours * 3600000 + fila.minutes * 60000
                  + fila.seconds * 1000 + fila.milliseconds = entrada.time

\* C13 witness: a total of more than an hour alone was saved, and its derived
\* components are not all zero
C13_Witness ==
    /\ tpc = "save"
    /\ entrada.hours = 0 /\ entrada.minutes = 0
    /\ entrada.seconds = 0 /\ entrada.milliseconds = 0
    /\ entrada.time > 3600000
    /\ fila.hours > 0 /\ fila.minutes > 0 /\ fila.seconds > 0 /\ fila.milliseconds > 0

\* ------------------------------------------------------- results claims
\* the number of records of total 0 of team e
Ceros(e) == Cardinality({i \in DOMAIN tiempos[e] : tiempos[e][i] = 0})

\* C14: in the list rendered, every team is listed once; a team with a record
\* of total 0 is disqualified with an absent count equal to its number of
\* such records (at least 1), has no position, and is listed after every
\* qualified team whatever its total time; the other teams are qualified
C14_ZeroRecordDisqualifies ==
    vpc = "done"
       => /\ Len(listado) = NumEquiposRes
          /\ \A e \in EquiposRes : \E i \in DOMAIN listado : listado[i].equipo = e
          /\ \A i \in DOMAIN listado :
                IF Ceros(listado[i].equipo) >= 1
                THEN /\ listado[i].descalificado
                     /\ listado[i].jugadores_ausentes = Ceros(listado[i].equipo)
                     /\ listado[i].posicion = 0
                     /\ \A j \in DOMAIN listado : ~listado[j].descalificado => j < i
                ELSE /\ ~listado[i].descalificado
                     /\ listado[i].posicion = i

\* C14 witness: a team with a zero record and a smaller total is listed
\* after a qualified team with a larger total
C14_Witness ==
    /\ vpc = "done"
    /\ \E i, j \in DOMAIN listado :
          /\ i < j
          /\ ~listado[i].descalificado /\ listado[j].descalificado
          /\ listado[j].jugadores_ausentes >= 1
          /\ listado[j].tiempo_total_ms > 0
          /\ listado[j].tiempo_total_ms < listado[i].tiempo_total_ms

\* ------------------------------------------- transaction outcome claims
\* C15: a request that has published its registros_actualizados event has
\* committed its transaction: none of its inserts is uncommitted and it
\* holds no team row lock
C15_PublishAfterCommit ==
    \A p \in Procs :
        rsent[p] # <<>>
           => /\ pending[p] = {}
              /\ \A e \in Equipos : lockOwner[e] # p

\* ------------------------------------------------------- batch outcomes
\* the records of the batch of the response just given
Valido(b, i) == b[i].tiempo # NoTime
ValidosAntes(b, i) == Cardinality({k \in 1..(i - 1) : Valido(b, k)})

\* C16: when register_batch has run its loop over the batch (the team had no
\* record and the call was not refused), every record without 'tiempo' is
\* reported failed at its index, and every record with a 'tiempo' that fits
\* under the cap of 15 is a row this call stored for the team.
C16_ValidRecordsStored ==
    (last.op.kind = "batch" /\ last.res.error = "none")
        => LET b == last.op.batch
               f == last.res.fallidos
           IN  \A i \in DOMAIN b :
                  /\ ~Valido(b, i)
                        => \E k \in DOMAIN f :
                              f[k] = [indice |-> i - 1, error |-> "falta_tiempo"]
                  /\ (Valido(b, i) /\ ValidosAntes(b, i) < MAX_REGISTROS_POR_EQUIPO)
                        => [record_id |-> b[i].id_registro,
                            team |-> last.op.equipo_id,
                            time |-> b[i].tiempo] \in last.stored

\* how many entries of the list s carry the input index i
Veces(s, i) == Cardinality({k \in DOMAIN s : s[k].indice = i})

\* C17: whatever way a register_batch call ends, every input index 0..n-1 is
\* in exactly one entry of registros_guardados and registros_fallidos taken
\* together, no other index is, and total_enviados = n =
\* len(registros_guardados) + total_fallidos.
C17_EveryIndexOnce ==
    last.op.kind = "batch"
        => LET n == Len(last.op.batch)
               g == last.res.guardados
               f == last.res.fallidos
           IN  /\ \A i \in 0..(n - 1) : Veces(g, i) + Veces(f, i) = 1
               /\ \A k \in DOMAIN g : g[k].indice \in 0..(n - 1)
               /\ \A k \in DOMAIN f : f[k].indice \in 0..(n - 1)
               /\ last.res.total_enviados = n
               /\ n = Len(g) + last.res.total_fallidos

\* a batch of 17 ended with 15 records saved and two failed, each for its own
\* reason
C17_Witness ==
    /\ last.op.kind = "batch"
    /\ Len(last.op.batch) = MAX_REGISTROS_POR_EQUIPO + 2
    /\ Len(last.res.guardados) = MAX_REGISTROS_POR_EQUIPO
    /\ \E k \in DOMAIN last.res.fallidos : last.res.fallidos[k].error = "falta_tiempo"
    /\ \E k \in DOMAIN last.res.fallidos : last.res.fallidos[k].error = "limite"

\* the errors only a fault inside the transaction is answered with
FaultErrors == {"error_guardar", "error_general", "error_interno"}

\* C18: when a registration (single or batch) is ended by a storage fault or
\* any other exception inside its transaction, the step stores no row, leaves
\* no insert of that call pending and no row lock held by it, and the call
\* reports failure; a register_batch call reports nothing saved and every
\* index 0..n-1 failed, each once.
C18_FaultRollsBack ==
    [][(last'.proc # 0 /\ last'.res.error \in FaultErrors)
          => LET p == last'.proc
                 n == Len(last'.op.batch)
                 f == last'.res.fallidos
             IN  /\ registros' = registros
                 /\ pending'[p] = {}
                 /\ \A e \in Equipos : lockOwner'[e] # p
                 /\ ~last'.res.exito
                 /\ last'.res.guardados = <<>>
                 /\ last'.op.kind = "batch"
                       => /\ Len(f) = n
                          /\ \A i \in 0..(n - 1) : \E k \in DOMAIN f : f[k].indice = i
                          /\ last'.res.total_guardados = 0
                          /\ last'.res.total_fallidos = n]_vars

\* a register_batch call of 15 records was ended by a fault: all 15 indices
\* are reported failed and the team has no record
C18_Witness ==
    /\ last.op.kind = "batch"
    /\ last.res.error = "error_general"
    /\ Len(last.res.fallidos) = MAX_REGISTROS_POR_EQUIPO
    /\ \A r \in registros : r.team # last.op.equipo_id

\* ------------------------------------------------------ live connections
\* C19: a connection that connect rejected (closed with a code) has not been
\* accepted, has never been added to a group, and is in no group.
C19_RejectedNeverJoins ==
    \A c \in Conns :
        ws[c].code # 0
            => /\ ~ws[c].accepted
               /\ ~ws[c].joined
               /\ \A m \in grupos : m.channel # c

\* one connection was rejected for want of an active competition and has
\* gone, while another was accepted and is in its judge's group
C19_Witness ==
    \E c, d \in Conns :
        /\ ws[c].code = 4004
        /\ ws[c].pc = "gone"
        /\ ws[d].accepted
        /\ [group |-> <<"juez", ws[d].url>>, channel |-> d] \in grupos

\* the rejection causes the close codes are to tell apart
CausasDistinguidas == {"token_invalido", "juez_inactivo", "juez_distinto", "sin_competencia"}

\* C20: two connections rejected for different causes among an invalid
\* token, an inactive judge, a URL juez_id that is not the token's judge, and
\* no active competition, are closed with different codes.
C20_DistinctCloseCodes ==
    \A c, d \in Conns :
        (/\ ws[c].causa \in CausasDistinguidas
         /\ ws[d].causa \in CausasDistinguidas
         /\ ws[c].causa # ws[d].causa)
            => ws[c].code # ws[d].code

\* C21: an accepted judge connection (until it disconnects) is in the group
\* juez_<judge id> and in the group competencia_<id> of the judge's
\* competition (the competition of the judge's first team, as the
\* registration service takes it), and the first message sent to it is the
\* conexion_establecida snapshot with that competition's id and its stored
\* is_running.
C21_AcceptedIsSubscribedAndToldStatus ==
    \A c \in Conns :
        (ws[c].kind = "juez" /\ ws[c].accepted /\ ws[c].pc # "gone")
            => LET j == ws[c].juez
                   k == CompetenciaIdDelJuez(j)
               IN  /\ [group |-> <<"juez", j>>, channel |-> c] \in grupos
                   /\ [group |-> <<"competencia", k>>, channel |-> c] \in grupos
                   /\ ws[c].primero # NoMensaje
                        => /\ ws[c].primero.tipo = "conexion_establecida"
                           /\ ws[c].primero.competencia = k
                           /\ ws[c].primero.en_curso = comp[k].is_running

\* C22: after disconnect of a connection has completed, the connection is a
\* member of no group, save a group whose own group_discard call raised
\* (disconnect swallows the exception and returns in every case).
C22_DisconnectLeavesNoGroup ==
    \A c \in Conns :
        ws[c].pc = "gone"
            => \A m \in grupos : m.channel = c => m.group \in ws[c].fallados

\* the inbound message types that carry a registration
TiposRegistro == {"registrar_tiempo", "registrar_tiempos"}

\* C23: a registrar_tiempo or registrar_tiempos message received on a judge's
\* connection is answered with an error message that tells the client to use
\* HTTP, and the step leaves the stored RegistroTiempo rows as they were,
\* whatever the state of the competition.
C23_RegistrationMessageRefused ==
    [][\A c \in Conns :
          (/\ wlast'.conn = c
           /\ ws[c].kind = "juez"
           /\ wlast'.recibido \in TiposRegistro)
              => /\ wlast'.enviado.tipo = "error"
                 /\ wlast'.enviado.usar_http
                 /\ registros' = registros]_vars

\* a judge whose competition is running has just sent a registrar_tiempo
\* message and has been told to use HTTP
C23_Witness ==
    /\ wlast.conn # 0
    /\ wlast.recibido = "registrar_tiempo"
    /\ ws[wlast.conn].kind = "juez"
    /\ comp[CompetenciaIdDelJuez(ws[wlast.conn].juez)].is_running
    /\ wlast.enviado.usar_http

\* C24: an inbound message that is not a ping, on a judge's or a viewer's
\* connection, is answered with a message of tipo 'error'.
C24_EveryMessageAnswered ==
    (wlast.recibido \notin {"none", "ping"}) => wlast.enviado.tipo = "error"

\* the events a viewer relays
TiposEvento == {"competencia_iniciada", "competencia_detenida", "registros_actualizados"}

\* C25: after every step, a viewer's connection is in no group but
\* competencia_<id> of its URL; a step in which a viewer's consumer handles a
\* competencia_iniciada, competencia_detenida or registros_actualizados event
\* sends a message of the event's tipo whose data is the event's data; a step
\* in which a viewer's inbound message is received leaves the stored
\* competitions, teams and records as they were.
C25_ViewerRelaysOnly ==
    [][\A c \in Conns :
          ws'[c].kind = "publico"
              => /\ \A m \in grupos' :
                       m.channel = c => m.group = <<"competencia", ws'[c].url>>
                 /\ (wlast'.conn = c /\ wlast'.evento # NoEvento)
                       => /\ wlast'.evento = Head(ws[c].cola)
                          /\ wlast'.evento.tipo \in TiposEvento
                          /\ wlast'.enviado.tipo = wlast'.evento.tipo
                          /\ wlast'.enviado.data = wlast'.evento
                 /\ (wlast'.conn = c /\ wlast'.recibido # "none")
                       => UNCHANGED <<comp, equipo, registros>>]_vars

\* a viewer has just relayed the registros_actualizados event of a whole
\* batch, in a competition that has been stopped and started again
C25_Witness ==
    /\ wlast.conn # 0
    /\ ws[wlast.conn].kind = "publico"
    /\ wlast.evento.tipo = "registros_actualizados"
    /\ wlast.enviado.data.total_registros = MAX_REGISTROS
    /\ comp[1].finished_at # 0

\* ------------------------------------------------------ status, restart
\* Competencia.get_status_code: is_running is tested before finished_at
StatusCodeFinishedFirst(row) ==
    IF row.finished_at # 0 THEN "finished"
    ELSE IF row.is_running THEN "running"
    ELSE "scheduled"
StatusCode(row) ==
    IF row.is_running THEN "running"
    ELSE IF row.finished_at # 0 THEN "finished"
    ELSE "scheduled"

\* C26: whatever start and stop requests have run, the status of a
\* competition is running iff its stored is_running is true, finished iff it
\* is not running and a stop has written its row, and scheduled iff no start
\* has ever written its row.
C26_StatusTellsHistory ==
    \A c \in Comps :
        LET s == StatusCode(comp[c])
        IN  /\ s = "running" <=> comp[c].is_running
            /\ s = "finished" <=> (~comp[c].is_running /\ historia[c].parada)
            /\ s = "scheduled" <=> ~historia[c].empezada

\* a competition that was stopped runs again, its finished_at still set; the
\* other has never been started; no request is in progress
C26_Witness ==
    \E c, d \in Comps :
        /\ StatusCode(comp[c]) = "running"
        /\ comp[c].finished_at # 0
        /\ historia[c].parada
        /\ StatusCode(comp[d]) = "scheduled"
        /\ \A a \in Admins : lpc[a] = "idle"

DeEquipo(rs, e) == {r \in rs : r.team = e}

\* C28: when the POST of a judge's batch of MAX_REGISTROS records with ids of
\* its own returns, the judge's team having had no record, the response is
\* 201 with MAX_REGISTROS records saved and none failed, the team has exactly
\* these MAX_REGISTROS records, and the rows of every other team are as they
\* were, whatever the other judges' requests have done meanwhile.
C28_ParallelBatchesAccepted ==
    [][\A p \in Procs :
          (/\ last'.proc = p
           /\ last'.op.kind = "http"
           /\ DeEquipo(registros, last'.op.equipo_id) = {})
              => LET e == last'.op.equipo_id
                 IN  /\ last'.res.status = 201
                     /\ last'.res.exito
                     /\ last'.res.total_guardados = MAX_REGISTROS
                     /\ last'.res.fallidos = <<>>
                     /\ Cardinality(DeEquipo(registros', e)) = MAX_REGISTROS
                     /\ {r.record_id : r \in DeEquipo(registros', e)}
                          = {last'.op.batch[i].id_registro : i \in 1..MAX_REGISTROS}
                     /\ \A o \in Equipos \ {e} :
                           DeEquipo(registros', o) = DeEquipo(registros, o)]_vars

\* the POST of judge 2 has just returned 201; it began and ended while that
\* of judge 1 held its 15 inserts uncommitted
C28_Witness ==
    /\ last.proc = 2
    /\ last.res.status = 201
    /\ Cardinality(pending[1]) = MAX_REGISTROS
    /\ Cardinality(registros) = MAX_REGISTROS

\* C29: when a judge's connection is open, no group message waits for its
\* consumer and no start or stop is in progress, the en_curso last sent to the
\* client, by the snapshot or by a later event, is the stored is_running of
\* the judge's competition.
C29_ClientSeesStoredStatus ==
    \A c \in Conns :
        (/\ ws[c].kind = "juez"
         /\ ws[c].pc = "open"
         /\ ws[c].cola = <<>>
         /\ \A a \in Admins : lpc[a] = "idle")
            => ws[c].visto.en_curso = comp[CompetenciaIdDelJuez(ws[c].juez)].is_running

\* C30: a step that commits RegistroTiempo rows commits none for a team whose
\* competition is stored as not running at that moment (checked for the
\* teams of the competition of their judge's first team, the competition
\* whose is_running the registration read).
C30_NoRecordAfterStop ==
    [][\A r \in registros' \ registros :
          LET k == equipo[r.team].competition
          IN  k = CompetenciaJuez(equipo[r.team].judge) => comp'[k].is_running]_vars

\* ------------------------------------------- registration, further claims
\* C31: a step that inserts or commits a TimeRecord for team T is taken while
\* the competition T itself belongs to is stored as running, whichever other
\* teams the judge owns.
C31_StoredOnlyWhileOwnCompetitionRuns ==
    [][\A p \in Procs :
          \A r \in (pending'[p] \ pending[p]) \cup (registros' \ registros) :
              comp[equipo[r.team].competition].is_running]_vars

\* the operation is a register_batch call, made directly or by the endpoint
EsBatch(op) == op.kind \in {"batch", "http"}

\* the rows of team e that transactions other than p's have inserted and not
\* yet committed
PendientesDeOtros(p, e) ==
    UNION {{r \in pending[q] : r.team = e} : q \in Procs \ {p}}

\* a register_batch call inserts rows for a team only when the team has no
\* row, stored or being stored by another call; since rows are never deleted,
\* no two calls ever store records for one team
SoloUnBatchGuarda(p) ==
    (EsBatch(rop[p]) /\ pending'[p] # pending[p])
        => /\ Stored(rop[p].equipo_id) = {}
           /\ PendientesDeOtros(p, rop[p].equipo_id) = {}

\* a register_batch call that returns while the team holds a record the call
\* did not store has stored nothing and reports every index failed
BatchPosteriorRechazado ==
    LET op == last'.op
        e == op.equipo_id
    IN  (/\ last'.proc # 0
         /\ op.kind = "batch"
         /\ e \in Equipos
         /\ StoredNext(e) \ last'.stored # {})
            => /\ last'.stored = {}
               /\ registros' = registros
               /\ last'.res.total_guardados = 0
               /\ last'.res.guardados = <<>>
               /\ Len(last'.res.fallidos) = Len(op.batch)
               /\ \A i \in 1..Len(op.batch) : last'.res.fallidos[i].indice = i - 1

\* a register_batch call that reaches its insert for a team without records
\* stores at least one of the records it queued, so that of the calls that
\* find the team empty one does store
BatchAceptadoGuarda(p) ==
    (EsBatch(rop[p]) /\ rpc[p] = "binsert" /\ rpc'[p] = "commit")
        => pending'[p] # {}

\* the refusal alone: no two calls store, and a later call is turned away
AtMostOneBatchStores ==
    [][(\A p \in Procs : SoloUnBatchGuarda(p)) /\ BatchPosteriorRechazado]_vars

\* C32: for any team at most one register_batch call ever stores records: a
\* call that returns while the team has records it did not store has stored
\* nothing and reports every index failed, and of the calls that find the
\* team empty and reach their insert, one stores records.
C32_ExactlyOneBatchStores ==
    [][/\ \A p \in Procs : SoloUnBatchGuarda(p) /\ BatchAceptadoGuarda(p)
       /\ BatchPosteriorRechazado]_vars

\* C33: a registrar_tiempo call that reaches its idempotency lookup with a
\* record_id that is stored, for a team that has 15 records, returns at that
\* step with success, the stored record of that id and duplicado = true, not
\* the record-limit error, and creates no row.
C33_ReplayBeforeLimit ==
    [][\A p \in Procs :
          LET op == rop[p]
          IN  (/\ rpc[p] = "check" /\ Steps(p)
               /\ op.kind = "single"
               /\ op.record_id \in StoredIds
               /\ Cardinality(Stored(op.equipo_id)) >= MAX_REGISTROS_POR_EQUIPO)
                  => /\ last'.proc = p
                     /\ last'.op = op
                     /\ last'.res.exito
                     /\ last'.res.duplicado
                     /\ last'.res.error = "none"
                     /\ last'.res.registro \in registros
                     /\ last'.res.registro.record_id = op.record_id
                     /\ last'.stored = {}
                     /\ registros' = registros]_vars

\* a team holds 15 records and the replay of the id of one of them has just
\* been answered as a duplicate
C33_Witness ==
    /\ last.op.kind = "single"
    /\ last.op.equipo_id \in Equipos
    /\ Cardinality(Stored(last.op.equipo_id)) = MAX_REGISTROS_POR_EQUIPO
    /\ last.res.duplicado
    /\ last.res.registro \in Stored(last.op.equipo_id)
    /\ last.res.registro.record_id = last.op.record_id

\* C34: in the result of a register_batch call, an entry of
\* registros_guardados has duplicado = false iff the call inserted a row with
\* the entry's record id, and total_guardados is the number of rows the call
\* inserted.
C34_SavedMeansInserted ==
    (last.proc # 0 /\ EsBatch(last.op))
        => /\ last.res.total_guardados = Cardinality(last.stored)
           /\ \A i \in 1..Len(last.res.guardados) :
                 ~last.res.guardados[i].duplicado
                     <=> \E r \in last.stored :
                            r.record_id = last.res.guardados[i].id_registro

\* C35: a registrar_tiempo call that returns success with duplicado = true
\* returns a record of the team the call names.
C35_DuplicateIsOwnTeams ==
    (last.proc # 0 /\ last.op.kind = "single" /\ last.res.exito /\ last.res.duplicado)
        => last.res.registro.team = last.op.equipo_id

\* C36: a request to the batch endpoint that has published has published one
\* registros_actualizados event, to the group of the competition of the
\* request's team, and has stored at least one record; a request that has
\* stored a record is answered 201 whether or not its publish succeeded (a
\* request that stored and published nothing is one whose publish raised).
C36_PublishesIffStored ==
    (last.proc # 0 /\ last.op.kind = "http")
        => /\ last.sent # <<>>
                => /\ Len(last.sent) = 1
                   /\ last.sent[1].tipo = "registros_actualizados"
                   /\ last.sent[1].group = equipo[last.op.equipo_id].competition
                   /\ last.stored # {}
           /\ last.stored # {}
                => /\ last.res.exito
                   /\ last.res.status = 201

\* ----------------------------------------------------- further claims
\* C37: the conexion_establecida snapshot sent on an accepted judge
\* connection reports the competition whose competencia_<id> group the
\* connection joined.
C37_SnapshotOfJoinedGroup ==
    \A c \in Conns :
        (/\ ws[c].kind = "juez"
         /\ ws[c].accepted
         /\ ws[c].primero.tipo = "conexion_establecida")
            => /\ ws[c].competencia_group # 0
               /\ ws[c].primero.competencia = ws[c].competencia_group

\* the request `via` for operation op on competition c, made by an idle
\* administrator, passes the guards on the loaded row
Admite(a, via, op, c) ==
    IF op = "start"
    THEN ENABLED (StartLoad(a, via, c) /\ lpc'[a] = "check")
    ELSE ENABLED (StopLoad(a, via, c) /\ lpc'[a] = "presave")

\* C38: from every stored state Competencia.start/stop and
\* CompetenciaService.iniciar_competencia/detener_competencia admit the same
\* requests, and a request about to save would publish the same explicit event
\* through either of them (the statements between the guards and the save,
\* and the save itself, are the same in both).
C38_EntryPointsAgree ==
    \A a \in Admins :
        /\ lpc[a] = "idle"
              => \A op \in {"start", "stop"}, c \in CompIds :
                    Admite(a, "model", op, c) <=> Admite(a, "service", op, c)
        /\ lpc[a] = "save"
              => NotifyEventOf("model", lop[a].op, lop[a].id, inst[a])
                   = NotifyEventOf("service", lop[a].op, lop[a].id, inst[a])

\* the entries of the rendered list that are qualified teams
ListaCalificados == {i \in DOMAIN listado : ~listado[i].descalificado}

\* C39 (as stated): the qualified teams are listed in ascending order of the
\* sum of their record times, a team with no records (sum 0) included, and
\* have the positions 1..k in that order
C39_Original ==
    vpc = "done"
       => /\ ListaCalificados = 1..Cardinality(ListaCalificados)
          /\ \A i \in ListaCalificados :
                /\ listado[i].posicion = i
                /\ listado[i].tiempo_total_ms = Suma(tiempos[listado[i].equipo])
          /\ \A i, j \in ListaCalificados :
                i < j => listado[i].tiempo_total_ms <= listado[j].tiempo_total_ms

\* C39 (amended): the qualified teams that have records are listed in
\* ascending order of the sum of their record times, the qualified teams with
\* no records (the ones whose sum is 0) after them, and the qualified teams
\* have the contiguous positions 1..k in the order listed.
C39_QualifiedRanking ==
    vpc = "done"
       => /\ ListaCalificados = 1..Cardinality(ListaCalificados)
          /\ \A i \in ListaCalificados :
                /\ listado[i].posicion = i
                /\ listado[i].tiempo_total_ms = Suma(tiempos[listado[i].equipo])
                /\ listado[i].tiempo_total_ms = 0 <=> tiempos[listado[i].equipo] = <<>>
          /\ \A i, j \in ListaCalificados :
                i < j => /\ (listado[i].tiempo_total_ms > 0 /\ listado[j].tiempo_total_ms > 0)
                              => listado[i].tiempo_total_ms <= listado[j].tiempo_total_ms
                         /\ listado[i].tiempo_total_ms = 0
                              => listado[j].tiempo_total_ms = 0

\* two qualified teams with different sums are listed first and second, and
\* a qualified team without records third
C39_Witness ==
    /\ vpc = "done"
    /\ ListaCalificados = 1..3
    /\ 0 < listado[1].tiempo_total_ms
    /\ listado[1].tiempo_total_ms < listado[2].tiempo_total_ms
    /\ tiempos[listado[3].equipo] = <<>>
    /\ listado[3].posicion = 3

====
